---- MODULE Spec2Model ----
(***************************************************************************)
(* A model of scripts/check_cfradial.py, the CF/Radial 1.2 compliance      *)
(* checker.  The dataset is a value: its dimensions, its global attributes *)
(* and its variables in file order.  Every diagnostic printed by log_error *)
(* or log_note is appended to log.  An uncaught Python exception moves pc  *)
(* to "fault".                                                             *)
(***************************************************************************)
EXTENDS Integers, Sequences, FiniteSets, TLC

VARIABLES
    dataset,            \* the netCDF dataset handed to the checker
    verb,               \* the verb argument: notes on missing optional items
    pc,                 \* the clause about to be checked, or done, fault, unit, returned
    log,                \* what log_error and log_note have printed, in order
    table,              \* the table under construction when a table is used on its own
    call,               \* the function called and its arguments
    n_gates_vary_flag,  \* local of check_cfradial_compliance
    mobile_platform,    \* local of check_cfradial_compliance
    run,                \* 1 in the first run over the dataset, 2 in the second
    firstLog            \* how the first run ended, during the second

vars ==
    <<dataset, verb, pc, log, table, call, n_gates_vary_flag, mobile_platform, run, firstLog>>

\* the variables that only check_cfradial_compliance and its caller use
orch == <<n_gates_vary_flag, mobile_platform, run, firstLog>>

(***************************************************************************)
(* Python values.  None is the empty tuple and a declared expectation x is *)
(* the one-tuple <<x>>, so that x = None is defined for every x.           *)
(***************************************************************************)
None == <<>>
Some(x) == <<x>>

\* variable types (numpy type objects compare by identity of the kind)
DOUBLE == "float64"
FLOAT == "float32"
BYTE == "int8"
INT == "int32"
SHORT == "int16"
\* STRING = unicode (STRING is a reserved word of TLA+)
STRING_ == "unicode"
CHAR == "S1"

\* The empty mapping (a dict, or an object without attributes).
EmptyMap == <<>>

\* An attribute as the file stores it: the Python type netCDF4 returns it with and
\* the characters of its value, as a sequence of tokens (a token is a run of
\* characters; a string that is read character by character has one per token).
AttrValue(t, chars) == [type |-> t, chars |-> chars]

RECURSIVE Join(_)
\* the Python string a sequence of tokens stands for
Join(s) == IF s = <<>> THEN "" ELSE Head(s) \o Join(Tail(s))

\* obj.ncattrs(): the names of the attributes of a dataset or a variable.
ncattrs(obj) == DOMAIN obj.attrs

\* getattr(obj, attr_name): the type and the value of the attribute
getattr(obj, attr_name) ==
    [type |-> obj.attrs[attr_name].type, value |-> Join(obj.attrs[attr_name].chars)]

\* var_name in dataset.variables
HasVar(ds, var_name) == \E i \in 1..Len(ds.variables) : ds.variables[i].name = var_name

\* dataset.variables[var_name]
GetVar(ds, var_name) ==
    ds.variables[CHOOSE i \in 1..Len(ds.variables) : ds.variables[i].name = var_name]

\* print "ERROR: (%s) %s" % (section, text)
log_error(section, text) == <<[kind |-> "ERROR", section |-> section, msg |-> text]>>

\* print "NOTE: (%s) %s" % (section, text)
log_note(section, text) == <<[kind |-> "NOTE", section |-> section, msg |-> text]>>

(***************************************************************************)
(* class Attribute                                                         *)
(***************************************************************************)
Attribute(_type, value) == [_type |-> _type, value |-> value]

\* a comparison that forgets the None case
type_bad_AlwaysCompares(self, _type) == self._type # Some(_type)

type_bad(self, _type) ==
    IF self._type = None \/ self._type = Some(_type) THEN FALSE ELSE TRUE

value_bad(self, value) ==
    IF self.value = None \/ self.value = Some(value) THEN FALSE ELSE TRUE

(***************************************************************************)
(* class AttributeTable                                                    *)
(***************************************************************************)
AttributeTable(text, section) ==
    [class |-> "AttributeTable", text |-> text, section |-> section, attributes |-> EmptyMap,
     required_attrs |-> <<>>, optional_attrs |-> <<>>]

add_attr(self, attr_name, required, _type, value) ==
    [self EXCEPT !.attributes = (attr_name :> Attribute(_type, value)) @@ @,
                 !.required_attrs = IF required THEN Append(@, attr_name) ELSE @,
                 !.optional_attrs = IF required THEN @ ELSE Append(@, attr_name)]

req_attr(self, attr_name, _type, value) ==
    [self EXCEPT !.attributes = (attr_name :> Attribute(_type, value)) @@ @,
                 !.required_attrs = Append(@, attr_name)]

opt_attr(self, attr_name, _type, value) ==
    [self EXCEPT !.attributes = (attr_name :> Attribute(_type, value)) @@ @,
                 !.optional_attrs = Append(@, attr_name)]

\* a check that, when verbose, only notes a missing attribute, required or not
check_attr_VerboseOnlyNotes(self, attr_name, required, test_var, vb) ==
    IF attr_name \notin ncattrs(test_var)
    THEN IF vb
         THEN log_note(self.section, <<"optional_missing", self.text, attr_name>>)
         ELSE IF required
              THEN log_error(self.section, <<"required_missing", self.text, attr_name>>)
              ELSE <<>>
    ELSE LET attr_obj == self.attributes[attr_name]
             attr == getattr(test_var, attr_name)
         IN  (IF type_bad(attr_obj, attr.type)
              THEN log_error(self.section,
                       <<"incorrect_type", self.text, attr_name, attr.type, attr_obj._type>>)
              ELSE <<>>)
             \o
             (IF value_bad(attr_obj, attr.value)
              THEN log_error(self.section,
                       <<"incorrect_value", self.text, attr_name, attr.value, attr_obj.value>>)
              ELSE <<>>)

check_attr(self, attr_name, required, test_var, vb) ==
    IF attr_name \notin ncattrs(test_var)
    THEN IF required
         THEN log_error(self.section, <<"required_missing", self.text, attr_name>>)
         ELSE IF vb
              THEN log_note(self.section, <<"optional_missing", self.text, attr_name>>)
              ELSE <<>>
    ELSE LET attr_obj == self.attributes[attr_name]
             attr == getattr(test_var, attr_name)
         IN  (IF type_bad(attr_obj, attr.type)
              THEN log_error(self.section,
                       <<"incorrect_type", self.text, attr_name, attr.type, attr_obj._type>>)
              ELSE <<>>)
             \o
             (IF value_bad(attr_obj, attr.value)
              THEN log_error(self.section,
                       <<"incorrect_value", self.text, attr_name, attr.value, attr_obj.value>>)
              ELSE <<>>)

RECURSIVE check_attrs(_, _, _, _, _)
\* for attr_name in names: self.check_attr(attr_name, required, test_var, verb)
check_attrs(self, names, required, test_var, vb) ==
    IF names = <<>> THEN <<>>
    ELSE check_attr(self, Head(names), required, test_var, vb)
         \o check_attrs(self, Tail(names), required, test_var, vb)

\* a check that walks the optional names before the required ones
AttributeTable_check_OptionalFirst(self, test_var, vb) ==
    check_attrs(self, self.optional_attrs, FALSE, test_var, vb)
    \o check_attrs(self, self.required_attrs, TRUE, test_var, vb)

AttributeTable_check(self, test_var, vb) ==
    check_attrs(self, self.required_attrs, TRUE, test_var, vb)
    \o check_attrs(self, self.optional_attrs, FALSE, test_var, vb)

(***************************************************************************)
(* class Variable                                                          *)
(***************************************************************************)
Variable(dtype, dim, units) == [dtype |-> dtype, dim |-> dim, units |-> units]

dtype_bad(self, dtype) ==
    IF self.dtype = None THEN FALSE
    ELSE IF self.dtype = Some(dtype) THEN FALSE
    ELSE TRUE

dim_bad(self, dim) ==
    IF self.dim = None THEN FALSE
    ELSE IF self.dim = Some(dim) THEN FALSE
    ELSE TRUE

units_bad(self, units) ==
    IF self.units = None THEN FALSE
    ELSE IF self.units = Some(units) THEN FALSE
    ELSE TRUE

(***************************************************************************)
(* class VariableTable                                                     *)
(***************************************************************************)
VariableTable(text, section) ==
    [class |-> "VariableTable", text |-> text, section |-> section, variables |-> EmptyMap,
     required_vars |-> <<>>, optional_vars |-> <<>>]

add_var(self, var_name, required, dtype, dim, units) ==
    [self EXCEPT !.variables = (var_name :> Variable(dtype, dim, units)) @@ @,
                 !.required_vars = IF required THEN Append(@, var_name) ELSE @,
                 !.optional_vars = IF required THEN @ ELSE Append(@, var_name)]

\* a registration that keeps the expectation a name already has
req_var_KeepsFirst(self, var_name, dtype, dim, units) ==
    [self EXCEPT !.variables = @ @@ (var_name :> Variable(dtype, dim, units)),
                 !.required_vars = Append(@, var_name)]

req_var(self, var_name, dtype, dim, units) ==
    [self EXCEPT !.variables = (var_name :> Variable(dtype, dim, units)) @@ @,
                 !.required_vars = Append(@, var_name)]

opt_var(self, var_name, dtype, dim, units) ==
    [self EXCEPT !.variables = (var_name :> Variable(dtype, dim, units)) @@ @,
                 !.optional_vars = Append(@, var_name)]

\* a check of a present variable that returns at its first ERROR
check_var_StopsAtFirst(self, var_name, required, ds, vb) ==
    IF ~HasVar(ds, var_name)
    THEN IF required
         THEN log_error(self.section, <<"required_missing", self.text, var_name>>)
         ELSE IF vb
              THEN log_note(self.section, <<"optional_missing", self.text, var_name>>)
              ELSE <<>>
    ELSE LET var_obj == self.variables[var_name]
             var == GetVar(ds, var_name)
         IN  IF dtype_bad(var_obj, var.dtype)
             THEN log_error(self.section,
                      <<"incorrect_type", self.text, var_name, var.dtype, var_obj.dtype>>)
             ELSE IF dim_bad(var_obj, var.dimensions)
             THEN log_error(self.section,
                      <<"incorrect_dimensions", self.text, var_name,
                        var.dimensions, var_obj.dim>>)
             ELSE IF "units" \notin ncattrs(var) /\ var_obj.units # None
             THEN log_error(self.section, <<"missing_unit", self.text, var_name>>)
             ELSE IF var_obj.units # None /\ units_bad(var_obj, getattr(var, "units").value)
             THEN log_error(self.section,
                      <<"incorrect_units", self.text, var_name,
                        getattr(var, "units").value, var_obj.units>>)
             ELSE <<>>

\* a check that notes an absent optional variable whatever verb is
check_var_NoteAlways(self, var_name, required, ds, vb) ==
    IF ~HasVar(ds, var_name)
    THEN IF required
         THEN log_error(self.section, <<"required_missing", self.text, var_name>>)
         ELSE log_note(self.section, <<"optional_missing", self.text, var_name>>)
    ELSE LET var_obj == self.variables[var_name]
             var == GetVar(ds, var_name)
         IN  (IF dtype_bad(var_obj, var.dtype)
              THEN log_error(self.section,
                       <<"incorrect_type", self.text, var_name, var.dtype, var_obj.dtype>>)
              ELSE <<>>)
             \o
             (IF dim_bad(var_obj, var.dimensions)
              THEN log_error(self.section,
                       <<"incorrect_dimensions", self.text, var_name,
                         var.dimensions, var_obj.dim>>)
              ELSE <<>>)
             \o
             (IF "units" \notin ncattrs(var) /\ var_obj.units # None
              THEN log_error(self.section, <<"missing_unit", self.text, var_name>>)
              ELSE IF var_obj.units # None /\ units_bad(var_obj, getattr(var, "units").value)
                   THEN log_error(self.section,
                            <<"incorrect_units", self.text, var_name,
                              getattr(var, "units").value, var_obj.units>>)
                   ELSE <<>>)

check_var(self, var_name, required, ds, vb) ==
    IF ~HasVar(ds, var_name)
    THEN IF required
         THEN log_error(self.section, <<"required_missing", self.text, var_name>>)
         ELSE IF vb
              THEN log_note(self.section, <<"optional_missing", self.text, var_name>>)
              ELSE <<>>
    ELSE LET var_obj == self.variables[var_name]
             var == GetVar(ds, var_name)
         IN  (IF dtype_bad(var_obj, var.dtype)
              THEN log_error(self.section,
                       <<"incorrect_type", self.text, var_name, var.dtype, var_obj.dtype>>)
              ELSE <<>>)
             \o
             (IF dim_bad(var_obj, var.dimensions)
              THEN log_error(self.section,
                       <<"incorrect_dimensions", self.text, var_name,
                         var.dimensions, var_obj.dim>>)
              ELSE <<>>)
             \o
             (IF "units" \notin ncattrs(var) /\ var_obj.units # None
              THEN log_error(self.section, <<"missing_unit", self.text, var_name>>)
              ELSE IF var_obj.units # None /\ units_bad(var_obj, getattr(var, "units").value)
                   THEN log_error(self.section,
                            <<"incorrect_units", self.text, var_name,
                              getattr(var, "units").value, var_obj.units>>)
                   ELSE <<>>)

RECURSIVE check_vars(_, _, _, _, _)
\* for var_name in names: self.check_var(var_name, required, dataset, verb)
check_vars(self, names, required, ds, vb) ==
    IF names = <<>> THEN <<>>
    ELSE check_var(self, Head(names), required, ds, vb)
         \o check_vars(self, Tail(names), required, ds, vb)

VariableTable_check(self, ds, vb) ==
    check_vars(self, self.required_vars, TRUE, ds, vb)
    \o check_vars(self, self.optional_vars, FALSE, ds, vb)

(***************************************************************************)
(* Character data.  The data of a character variable is a sequence of rows *)
(* (one row for a one-dimensional variable), each a fixed-width buffer.    *)
(* A buffer read for a timestamp is a sequence of one-character strings; a *)
(* buffer read for an enumerated value is a sequence of tokens: a run of   *)
(* ordinary characters, a NUL (the padding byte) or a blank.               *)
(***************************************************************************)
NUL == "\\0"
Blank == " "

RECURSIVE StripRight(_, _)
StripRight(s, chars) ==
    IF s # <<>> /\ s[Len(s)] \in chars THEN StripRight(SubSeq(s, 1, Len(s) - 1), chars)
    ELSE s

RECURSIVE StripLeft(_, _)
StripLeft(s, chars) ==
    IF s # <<>> /\ Head(s) \in chars THEN StripLeft(Tail(s), chars)
    ELSE s

\* str.strip(chars): leading and trailing characters of chars removed
strip(s, chars) == StripLeft(StripRight(s, chars), chars)

\* chars.tostring().strip('\x00').strip()
DecodeStripped(buf) == Join(strip(strip(buf, {NUL}), {Blank}))

\* str(netCDF4.chartostring(buf)): numpy drops the trailing NUL padding
chartostring(buf) == StripRight(buf, {NUL})

\* s[-n:]
LastN(s, n) == IF Len(s) <= n THEN s ELSE SubSeq(s, Len(s) - n + 1, Len(s))

\* s.startswith(prefix)
startswith(s, prefix) == Len(s) >= Len(prefix) /\ SubSeq(s, 1, Len(prefix)) = prefix

(***************************************************************************)
(* time.strptime(s, '%Y-%m-%dT%H:%M:%SZ').  The format compiles to the     *)
(* regular expression                                                      *)
(*   (\d\d\d\d)-(1[0-2]|0[1-9]|[1-9])-(3[0-1]|[1-2]\d|0[1-9]|[1-9]| [1-9])  *)
(*   T(2[0-3]|[0-1]\d|\d):([0-5]\d|\d):(6[0-1]|[0-5]\d|\d)Z                 *)
(* matched ignoring case at the start of s; the match must cover s, and    *)
(* the date must exist in the calendar.  Every two-character alternative   *)
(* ends in a digit and every field is followed by a literal that is no     *)
(* digit, so the first alternative that matches is the only one that can   *)
(* lead to a match.                                                        *)
(***************************************************************************)
Digits == {"0", "1", "2", "3", "4", "5", "6", "7", "8", "9"}
NonZero == Digits \ {"0"}

DigitVal(c) ==
    CASE c = "0" -> 0 [] c = "1" -> 1 [] c = "2" -> 2 [] c = "3" -> 3 [] c = "4" -> 4
      [] c = "5" -> 5 [] c = "6" -> 6 [] c = "7" -> 7 [] c = "8" -> 8 [] c = "9" -> 9
      [] OTHER -> 0

\* the character at position i, or the empty string past the end
At(s, i) == IF i >= 1 /\ i <= Len(s) THEN s[i] ELSE ""

Pairs(A, B) == {<<a, b>> : a \in A, b \in B}

Two_m == Pairs({"1"}, {"0", "1", "2"}) \cup Pairs({"0"}, NonZero)
One_m == NonZero
Two_d == Pairs({"3"}, {"0", "1"}) \cup Pairs({"1", "2"}, Digits)
         \cup Pairs({"0"}, NonZero) \cup Pairs({Blank}, NonZero)
One_d == NonZero
Two_H == Pairs({"2"}, {"0", "1", "2", "3"}) \cup Pairs({"0", "1"}, Digits)
One_H == Digits
Two_M == Pairs({"0", "1", "2", "3", "4", "5"}, Digits)
One_M == Digits
Two_S == Pairs({"6"}, {"0", "1"}) \cup Pairs({"0", "1", "2", "3", "4", "5"}, Digits)
One_S == Digits

\* A field at position i: [ok, next, val].
Field(s, i, two, one) ==
    IF <<At(s, i), At(s, i + 1)>> \in two
    THEN [ok |-> TRUE, next |-> i + 2, val |-> 10 * DigitVal(At(s, i)) + DigitVal(At(s, i + 1))]
    ELSE IF At(s, i) \in one
         THEN [ok |-> TRUE, next |-> i + 1, val |-> DigitVal(At(s, i))]
         ELSE [ok |-> FALSE, next |-> i, val |-> 0]

Year(s) ==
    IF \A k \in 1..4 : At(s, k) \in Digits
    THEN [ok |-> TRUE, next |-> 5,
          val |-> 1000 * DigitVal(s[1]) + 100 * DigitVal(s[2]) + 10 * DigitVal(s[3]) + DigitVal(s[4])]
    ELSE [ok |-> FALSE, next |-> 1, val |-> 0]

IsLeap(y) == (y % 4 = 0 /\ y % 100 # 0) \/ y % 400 = 0

DaysInMonth(y, m) ==
    IF m = 2 THEN (IF IsLeap(y) THEN 29 ELSE 28)
    ELSE IF m \in {4, 6, 9, 11} THEN 30 ELSE 31

\* TRUE iff time.strptime returns, FALSE iff it raises ValueError
strptime(s) ==
    LET Y == Year(s)
        m == Field(s, Y.next + 1, Two_m, One_m)
        d == Field(s, m.next + 1, Two_d, One_d)
        H == Field(s, d.next + 1, Two_H, One_H)
        M == Field(s, H.next + 1, Two_M, One_M)
        S == Field(s, M.next + 1, Two_S, One_S)
    IN  /\ Y.ok /\ At(s, Y.next) = "-"
        /\ m.ok /\ At(s, m.next) = "-"
        /\ d.ok /\ At(s, d.next) \in {"T", "t"}
        /\ H.ok /\ At(s, H.next) = ":"
        /\ M.ok /\ At(s, M.next) = ":"
        /\ S.ok /\ At(s, S.next) \in {"Z", "z"}
        /\ Len(s) = S.next
        /\ Y.val >= 1
        /\ d.val <= DaysInMonth(Y.val, m.val)

(***************************************************************************)
(* Checks of one attribute or variable                                     *)
(***************************************************************************)
\* the elements of a sequence
Range(s) == {s[i] : i \in DOMAIN s}

\* value in a Python list
InList(x, list) == \E i \in 1..Len(list) : list[i] = x

check_attribute(section, obj, text, attr_name, valid_choices) ==
    IF attr_name \in ncattrs(obj)
    THEN LET attr == getattr(obj, attr_name).value
         IN  IF ~InList(attr, valid_choices)
             THEN log_error(section, <<"invalid_value", text, attr_name, attr, valid_choices>>)
             ELSE <<>>
    ELSE <<>>

check_char_variable(section, ds, text, var_name, valid_options) ==
    IF HasVar(ds, var_name)
    THEN LET value == DecodeStripped(GetVar(ds, var_name).data[1])
         IN  IF ~InList(value, valid_options)
             THEN log_error(section, <<"invalid_value", text, var_name, value, valid_options>>)
             ELSE <<>>
    ELSE <<>>

RECURSIVE chararr_rows(_, _, _, _, _, _)
\* the loop body of check_chararr_variable for rows i.. of the variable
chararr_rows(section, text, var_name, valid_options, rows, i) ==
    IF i > Len(rows) THEN <<>>
    ELSE LET value == DecodeStripped(rows[i])
         IN  (IF ~InList(value, valid_options)
              THEN log_error(section,
                       <<"invalid_value_at", text, var_name, i - 1, value, valid_options>>)
              ELSE <<>>)
             \o chararr_rows(section, text, var_name, valid_options, rows, i + 1)

check_chararr_variable(section, ds, text, var_name, valid_options) ==
    IF HasVar(ds, var_name)
    THEN chararr_rows(section, text, var_name, valid_options, GetVar(ds, var_name).data, 1)
    ELSE <<>>

check_valid_time_format(section, ds, text, var_name) ==
    IF HasVar(ds, var_name)
    THEN LET s == chartostring(GetVar(ds, var_name).data[1])
         IN  IF ~strptime(s)
             THEN log_error(section, <<"invalid_format", text, var_name, s>>)
             ELSE <<>>
    ELSE <<>>

(***************************************************************************)
(* Meta groups                                                             *)
(***************************************************************************)
RECURSIVE find_all_from(_, _, _)
find_all_from(ds, meta_group_name, i) ==
    IF i > Len(ds.variables) THEN <<>>
    ELSE LET v == ds.variables[i]
         IN  (IF "meta_group" \in ncattrs(v) /\ getattr(v, "meta_group").value = meta_group_name
              THEN <<v.name>> ELSE <<>>)
             \o find_all_from(ds, meta_group_name, i + 1)

\* a search that returns every variable carrying a meta_group attribute, whatever its value
find_all_meta_group_vars_AnyGroup(ds, meta_group_name) ==
    LET tagged(v) == "meta_group" \in ncattrs(v)
        found == SelectSeq(ds.variables, tagged)
    IN  [i \in 1..Len(found) |-> found[i].name]

find_all_meta_group_vars(ds, meta_group_name) == find_all_from(ds, meta_group_name, 1)

RECURSIVE metagroup_members(_, _, _, _)
\* first loop of check_metagroup, over the names of valid_meta_group_vars
metagroup_members(section, ds, meta_group_name, names) ==
    IF names = <<>> THEN <<>>
    ELSE LET var_name == Head(names)
         IN  (IF HasVar(ds, var_name)
              THEN LET var == GetVar(ds, var_name)
                   IN  IF "meta_group" \notin ncattrs(var)
                       THEN log_error(section,
                                <<"metagroup_attr_missing", meta_group_name, var_name>>)
                       ELSE IF getattr(var, "meta_group").value # meta_group_name
                            THEN log_error(section,
                                     <<"metagroup_incorrect", meta_group_name, var_name,
                                       getattr(var, "meta_group").value>>)
                            ELSE <<>>
              ELSE <<>>)
             \o metagroup_members(section, ds, meta_group_name, Tail(names))

RECURSIVE metagroup_others(_, _, _, _)
\* second loop of check_metagroup, over find_all_meta_group_vars
metagroup_others(section, meta_group_name, valid_meta_group_vars, found) ==
    IF found = <<>> THEN <<>>
    ELSE (IF ~InList(Head(found), valid_meta_group_vars)
          THEN log_error(section, <<"metagroup_not_member", Head(found), meta_group_name>>)
          ELSE <<>>)
         \o metagroup_others(section, meta_group_name, valid_meta_group_vars, Tail(found))

check_metagroup(section, ds, meta_group_name, valid_meta_group_vars) ==
    metagroup_members(section, ds, meta_group_name, valid_meta_group_vars)
    \o metagroup_others(section, meta_group_name, valid_meta_group_vars,
                        find_all_meta_group_vars(ds, meta_group_name))

(***************************************************************************)
(* Datasets.  A variable is its name, dtype, dimension tuple, attributes   *)
(* and data; a dataset is its dimensions, global attributes and variables  *)
(* in file order.                                                          *)
(***************************************************************************)
Var(name, dtype, dimensions, attrs, data) ==
    [name |-> name, dtype |-> dtype, dimensions |-> dimensions, attrs |-> attrs, data |-> data]

Dataset(dimensions, attrs, variables) ==
    [dimensions |-> dimensions, attrs |-> attrs, variables |-> variables]

\* the attribute mapping {name: unicode value}
StrAttr(name, value) == name :> AttrValue(STRING_, <<value>>)

\* a fixed-width character buffer holding s, NUL padded to width w
RECURSIVE Padded(_, _)
Padded(s, w) == IF Len(s) >= w THEN s ELSE Padded(Append(s, NUL), w)

\* concatenation of the sequences of a sequence (variables present, in file order)
RECURSIVE Flatten(_)
Flatten(ss) == IF ss = <<>> THEN <<>> ELSE Head(ss) \o Flatten(Tail(ss))

(***************************************************************************)
(* Timestamps used as data                                                 *)
(***************************************************************************)
T_Strict == <<"2","0","2","3","-","0","4","-","0","1","T","1","2",":","0","0",":","0","0","Z">>
T_Other == <<"2","0","2","4","-","0","2","-","2","9","T","2","3",":","5","9",":","6","0","Z">>
T_Blank == <<"2","0","2","3","-","0","4","-","0","1"," ","1","2",":","0","0",":","0","0">>
T_Unpadded == <<"2","0","2","3","-","4","-","1","T","1",":","2",":","3","Z">>
T_Lower == <<"2","0","2","3","-","0","4","-","0","1","t","1","2",":","0","0",":","0","0","z">>
T_Feb30 == <<"2","0","2","3","-","0","2","-","3","0","T","1","2",":","0","0",":","0","0","Z">>
T_Letters == <<"2","0","2","3","-","0","4","-","0","1","T","a","b",":","0","0",":","0","0","Z">>
T_Hour24 == <<"2","0","2","3","-","0","4","-","0","1","T","2","4",":","0","0",":","0","0","Z">>
T_Trailing == <<"2","0","2","3","-","0","4","-","0","1","T","1","2",":","0","0",":","0","0","Z","Z">>
T_Year0 == <<"0","0","0","0","-","0","1","-","0","1","T","0","0",":","0","0",":","0","0","Z">>

TimeStrings ==
    {<<>>, T_Strict, T_Other, T_Blank, T_Unpadded, T_Lower, T_Feb30, T_Letters, T_Hour24,
     T_Trailing, T_Year0}

\* width of the character buffers of timestamp variables (dimension string_length)
StringLength == 32

TimeVar(name, s) == Var(name, CHAR, <<"string_length">>, EmptyMap, <<Padded(s, StringLength)>>)

(***************************************************************************)
(* The functions and classes called on their own                           *)
(***************************************************************************)
MaxRegs == 2

UnitAttrNames == {"title", "scan_id"}
UnitAttrExpectations ==
    {Attribute(None, None), Attribute(Some(STRING_), None), Attribute(None, Some("radar")),
     Attribute(Some(STRING_), Some("radar"))}
UnitAttrContainers ==
    {Dataset({}, t @@ n, <<>>) :
        t \in {EmptyMap, StrAttr("title", "radar"), StrAttr("title", "lidar"),
               "title" :> AttrValue(INT, <<"7">>)},
        n \in {EmptyMap, "scan_id" :> AttrValue(INT, <<"7">>)}}

UnitVarNames == {"frequency", "prt"}
UnitVarExpectations ==
    {Variable(None, None, None),
     Variable(Some(FLOAT), Some(<<"time">>), Some("seconds")),
     Variable(None, Some(<<"time">>), Some("seconds")),
     Variable(Some(FLOAT), None, Some("seconds")),
     Variable(Some(FLOAT), Some(<<"time">>), None)}
UnitVarContainers ==
    {Dataset({"time"}, EmptyMap, f \o q) :
        f \in {<<>>,
               <<Var("frequency", FLOAT, <<"time">>, StrAttr("units", "seconds"), <<>>)>>,
               <<Var("frequency", INT, <<>>, EmptyMap, <<>>)>>,
               <<Var("frequency", FLOAT, <<"time">>, EmptyMap, <<>>)>>,
               <<Var("frequency", INT, <<"time">>, StrAttr("units", "s-1"), <<>>)>>},
        q \in {<<>>, <<Var("prt", FLOAT, <<"sweep">>, EmptyMap, <<>>)>>}}

MetaLabels == {"instrument_parameters", "radar_parameters"}
MetaAttrs == {EmptyMap} \cup {StrAttr("meta_group", l) : l \in MetaLabels}
MetaVars(name) == {<<>>} \cup {<<Var(name, FLOAT, <<"time">>, a, <<>>)>> : a \in MetaAttrs}
UnitMetaDatasets ==
    {Dataset({"time"}, EmptyMap, f \o q \o n) :
        f \in MetaVars("frequency"), q \in MetaVars("prt"), n \in MetaVars("nyquist_velocity")}
UnitCanonicalLists ==
    {<<>>, <<"frequency">>, <<"frequency", "prt">>, <<"prt", "frequency">>,
     <<"frequency", "prt", "nyquist_velocity">>}

UnitTimeDatasets ==
    {Dataset({"string_length"}, EmptyMap, a \o b) :
        a \in {<<>>} \cup {<<TimeVar("time_coverage_start", s)>> : s \in TimeStrings},
        b \in {<<>>, <<TimeVar("time_reference", T_Blank)>>}}

UnitInit ==
    /\ verb \in BOOLEAN
    /\ pc = "unit"
    /\ log = <<>>
    /\ n_gates_vary_flag = FALSE
    /\ mobile_platform = FALSE
    /\ run = 1
    /\ firstLog = None
    /\ \/ /\ call = [fn |-> "AttributeTable.check"]
          /\ table = AttributeTable("global attribute", "4.1")
          /\ dataset \in UnitAttrContainers
       \/ /\ call = [fn |-> "VariableTable.check"]
          /\ table = VariableTable("instrument_parameters variable", "5.1")
          /\ dataset \in UnitVarContainers
       \/ /\ call = [fn |-> "check_metagroup"]
          /\ table = None
          /\ dataset \in UnitMetaDatasets
       \/ /\ call = [fn |-> "check_valid_time_format"]
          /\ table = None
          /\ dataset \in UnitTimeDatasets

\* the number of registrations made on a table
Registrations(t) ==
    IF t.class = "AttributeTable" THEN Len(t.required_attrs) + Len(t.optional_attrs)
    ELSE Len(t.required_vars) + Len(t.optional_vars)

CanRegister(class) ==
    /\ pc = "unit"
    /\ table # None
    /\ table.class = class
    /\ Registrations(table) < MaxRegs

\* the call record after one more registration: the registrations made so far are
\* kept, each with its name, its required flag and its expectation
Registered(n, required, e) ==
    [fn |-> call.fn,
     registrations |-> Append(IF "registrations" \in DOMAIN call THEN call.registrations
                              ELSE <<>>,
                              [name |-> n, required |-> required, expectation |-> e])]

Call_add_attr ==
    /\ CanRegister("AttributeTable")
    /\ \E n \in UnitAttrNames, e \in UnitAttrExpectations, required \in BOOLEAN :
          /\ table' = add_attr(table, n, required, e._type, e.value)
          /\ call' = Registered(n, required, e)
    /\ UNCHANGED <<dataset, verb, pc, log, orch>>

Call_req_attr ==
    /\ CanRegister("AttributeTable")
    /\ \E n \in UnitAttrNames, e \in UnitAttrExpectations :
          /\ table' = req_attr(table, n, e._type, e.value)
          /\ call' = Registered(n, TRUE, e)
    /\ UNCHANGED <<dataset, verb, pc, log, orch>>

Call_opt_attr ==
    /\ CanRegister("AttributeTable")
    /\ \E n \in UnitAttrNames, e \in UnitAttrExpectations :
          /\ table' = opt_attr(table, n, e._type, e.value)
          /\ call' = Registered(n, FALSE, e)
    /\ UNCHANGED <<dataset, verb, pc, log, orch>>

Call_add_var ==
    /\ CanRegister("VariableTable")
    /\ \E n \in UnitVarNames, e \in UnitVarExpectations, required \in BOOLEAN :
          /\ table' = add_var(table, n, required, e.dtype, e.dim, e.units)
          /\ call' = Registered(n, required, e)
    /\ UNCHANGED <<dataset, verb, pc, log, orch>>

Call_req_var ==
    /\ CanRegister("VariableTable")
    /\ \E n \in UnitVarNames, e \in UnitVarExpectations :
          /\ table' = req_var(table, n, e.dtype, e.dim, e.units)
          /\ call' = Registered(n, TRUE, e)
    /\ UNCHANGED <<dataset, verb, pc, log, orch>>

Call_opt_var ==
    /\ CanRegister("VariableTable")
    /\ \E n \in UnitVarNames, e \in UnitVarExpectations :
          /\ table' = opt_var(table, n, e.dtype, e.dim, e.units)
          /\ call' = Registered(n, FALSE, e)
    /\ UNCHANGED <<dataset, verb, pc, log, orch>>

Call_AttributeTable_check ==
    /\ pc = "unit"
    /\ call.fn = "AttributeTable.check"
    /\ log' = log \o AttributeTable_check(table, dataset, verb)
    /\ pc' = "returned"
    /\ UNCHANGED <<dataset, verb, table, call, orch>>

Call_VariableTable_check ==
    /\ pc = "unit"
    /\ call.fn = "VariableTable.check"
    /\ log' = log \o VariableTable_check(table, dataset, verb)
    /\ pc' = "returned"
    /\ UNCHANGED <<dataset, verb, table, call, orch>>

Call_check_metagroup ==
    /\ pc = "unit"
    /\ call.fn = "check_metagroup"
    /\ \E l \in MetaLabels, canonical \in UnitCanonicalLists :
          /\ call' = [fn |-> "check_metagroup", meta_group_name |-> l,
                      valid_meta_group_vars |-> canonical]
          /\ log' = log \o check_metagroup("5.1", dataset, l, canonical)
    /\ pc' = "returned"
    /\ UNCHANGED <<dataset, verb, table, orch>>

Call_check_valid_time_format ==
    /\ pc = "unit"
    /\ call.fn = "check_valid_time_format"
    /\ \E n \in {"time_coverage_start", "time_coverage_end", "time_reference"} :
          /\ call' = [fn |-> "check_valid_time_format", var_name |-> n]
          /\ log' = log \o check_valid_time_format("4.3", dataset, "global_variable", n)
    /\ pc' = "returned"
    /\ UNCHANGED <<dataset, verb, table, orch>>

UnitNext ==
    \/ Call_add_attr \/ Call_req_attr \/ Call_opt_attr
    \/ Call_add_var \/ Call_req_var \/ Call_opt_var
    \/ Call_AttributeTable_check \/ Call_VariableTable_check
    \/ Call_check_metagroup \/ Call_check_valid_time_format

SpecUnit == UnitInit /\ [][UnitNext]_vars

(***************************************************************************)
(* check_cfradial_compliance.  Each clause of the standard is a step of    *)
(* the function; a step yields the diagnostics it prints and whether it    *)
(* raised (the exception is not caught, so the function is left).          *)
(***************************************************************************)
Ok(events) == [out |-> events, fault |-> FALSE]
Raise(events) == [out |-> events, fault |-> TRUE]

RECURSIVE RegisterAttrs(_, _)
\* the req_attr / opt_attr calls of a clause, in order: <<name, required, type, value>>
RegisterAttrs(t, regs) ==
    IF regs = <<>> THEN t
    ELSE LET r == Head(regs)
         IN  RegisterAttrs(IF r[2] THEN req_attr(t, r[1], r[3], r[4])
                           ELSE opt_attr(t, r[1], r[3], r[4]), Tail(regs))

RECURSIVE RegisterVars(_, _)
\* the req_var / opt_var calls of a clause, in order: <<name, required, dtype, dim, units>>
RegisterVars(t, regs) ==
    IF regs = <<>> THEN t
    ELSE LET r == Head(regs)
         IN  RegisterVars(IF r[2] THEN req_var(t, r[1], r[3], r[4], r[5])
                          ELSE opt_var(t, r[1], r[3], r[4], r[5]), Tail(regs))

Req == TRUE
Opt == FALSE

\* 'CF/Radial' in value, for the values of Conventions that datasets carry
ContainsCFRadial(value) == value \in {"CF/Radial", "CF/Radial-1.2", "CF-1.6 CF/Radial-1.2"}

\* the Python types that support the in operator and startswith
IsPyString(t) == t \in {STRING_, "str"}

\* 3 Convention hierarchy
Clause_3(ds) ==
    IF "Conventions" \in ncattrs(ds)
    THEN IF ~IsPyString(getattr(ds, "Conventions").type)
         THEN Raise(<<>>)
         ELSE IF ~ContainsCFRadial(getattr(ds, "Conventions").value)
              THEN Ok(log_error("3", <<"convention_not_cfradial">>))
              ELSE Ok(<<>>)
    ELSE Ok(<<>>)

global_attrs ==
    RegisterAttrs(AttributeTable("global attribute", "4.1"),
        << <<"Conventions", Req, Some(STRING_), None>>,
           <<"version", Opt, Some(STRING_), None>>,
           <<"title", Req, Some(STRING_), None>>,
           <<"institution", Req, Some(STRING_), None>>,
           <<"references", Req, Some(STRING_), None>>,
           <<"source", Req, Some(STRING_), None>>,
           <<"history", Req, Some(STRING_), None>>,
           <<"comment", Req, Some(STRING_), None>>,
           <<"instrument_name", Req, Some(STRING_), None>>,
           <<"site_name", Opt, Some(STRING_), None>>,
           <<"scan_name", Opt, Some(STRING_), None>>,
           <<"scan_id", Opt, Some(INT), None>>,
           <<"platform_is_mobile", Opt, Some(STRING_), None>>,
           <<"n_gates_vary", Opt, Some(STRING_), None>> >>)

\* 4.1 Global attributes
Clause_4_1(ds, vb) ==
    Ok(AttributeTable_check(global_attrs, ds, vb)
       \o check_attribute("4.1", ds, "global attribute", "platform_is_mobile",
                          <<"true", "false">>)
       \o check_attribute("4.1", ds, "global attribute", "n_gates_vary",
                          <<"true", "false">>))

Compute_n_gates_vary_flag(ds) ==
    "n_gates_vary" \in ncattrs(ds) /\ getattr(ds, "n_gates_vary").value = "true"

Compute_mobile_platform(ds) ==
    IF "platform_is_mobile" \in ncattrs(ds)
    THEN getattr(ds, "platform_is_mobile").value = "true"
    ELSE FALSE

When(cond, events) == IF cond THEN events ELSE <<>>

\* 4.2 Dimensions
Clause_4_2(ds, vb, flag) ==
    Ok(When("time" \notin ds.dimensions,
            log_error("4.2", <<"required_dimension_missing", "time">>))
       \o When("range" \notin ds.dimensions,
               log_error("4.2", <<"required_dimension_missing", "range">>))
       \o When("sweep" \notin ds.dimensions,
               log_error("4.2", <<"required_dimension_missing", "sweep">>))
       \o When(flag /\ "n_points" \notin ds.dimensions,
               log_error("4.2", <<"n_points_required_missing", "n_points">>))
       \o When(flag = FALSE /\ "n_points" \in ds.dimensions,
               log_error("4.2", <<"n_points_must_not_be_included", "n_points">>))
       \o When(vb /\ "frequency" \notin ds.dimensions,
               log_note("4.2", <<"optional_dimension_missing", "frequency">>)))

global_vars ==
    RegisterVars(VariableTable("global variable", "4.3"),
        << <<"volume_number", Req, Some(INT), None, None>>,
           <<"platform_type", Opt, Some(CHAR), None, None>>,
           <<"instrument_type", Opt, Some(CHAR), None, None>>,
           <<"primary_axis", Opt, Some(CHAR), None, None>>,
           <<"time_coverage_start", Req, Some(CHAR), None, None>>,
           <<"time_coverage_end", Req, Some(CHAR), None, None>>,
           <<"time_reference", Opt, Some(CHAR), None, None>> >>)

valid_platform_types ==
    <<"fixed", "vehicle", "ship", "aircraft", "aircraft_fore", "aircraft_aft",
      "aircraft_tail", "aircraft_belly", "aircraft_roof", "aircraft_nose",
      "satellite_orbit", "satellite_geostat">>

\* 4.3 Global variables
Clause_4_3(ds, vb) ==
    Ok(VariableTable_check(global_vars, ds, vb)
       \o check_char_variable("4.3", ds, "global variable", "platform_type",
                              valid_platform_types)
       \o check_char_variable("4.3", ds, "global variable", "instrument_type",
                              <<"radar", "lidar">>)
       \o check_char_variable("4.3", ds, "global variable", "primary_axis",
                              <<"axis_z", "axis_y", "axis_x">>)
       \o check_valid_time_format("4.3", ds, "global_variable", "time_coverage_start")
       \o check_valid_time_format("4.3", ds, "global_variable", "time_coverage_end")
       \o check_valid_time_format("4.3", ds, "global_variable", "time_reference"))

coordinate_vars ==
    RegisterVars(VariableTable("coordinate variable", "4.4"),
        << <<"time", Req, Some(DOUBLE), Some(<<"time">>), None>>,
           <<"range", Req, Some(FLOAT), Some(<<"range">>), Some("meters")>> >>)

time_attrs ==
    RegisterAttrs(AttributeTable("time attribute", "4.4.1"),
        << <<"standard_name", Req, Some(STRING_), Some("time")>>,
           <<"long_name", Req, Some(STRING_), Some("time_in_seconds_since_volume_start")>>,
           <<"units", Req, Some(STRING_), None>> >>)

range_attrs ==
    RegisterAttrs(AttributeTable("range attribute", "4.4.2"),
        << <<"standard_name", Req, Some(STRING_), Some("projection_range_coordinate")>>,
           <<"long_name", Req, Some(STRING_), Some("range_to_measurement_volume")>>,
           <<"units", Req, Some(STRING_), Some("meters")>>,
           <<"spacing_is_constant", Req, Some(STRING_), None>>,
           <<"meters_to_center_of_first_gate", Req, Some(FLOAT), None>>,
           <<"meters_between_gates", Opt, Some(FLOAT), None>>,
           <<"axis", Req, Some(STRING_), Some("radial_range_coordinate")>> >>)

SecondsSince == <<"s", "e", "c", "o", "n", "d", "s", " ", "s", "i", "n", "c", "e", " ">>

\* the comparison of the time units with time_reference, else time_coverage_start
time_units_reference(ds, time_str) ==
    IF HasVar(ds, "time_reference")
    THEN LET s == chartostring(GetVar(ds, "time_reference").data[1])
         IN  When(s # time_str,
                  log_error("4.4.1", <<"units_not_time_reference", time_str, s>>))
    ELSE IF HasVar(ds, "time_coverage_start")
         THEN LET s == chartostring(GetVar(ds, "time_coverage_start").data[1])
              IN  When(s # time_str,
                       log_error("4.4.1", <<"units_not_time_coverage_start", time_str, s>>))
         ELSE <<>>

\* time unit must be 'seconds since yyyy-mm-ddThh:mm:ssZ' (a units attribute that is
\* no string has no startswith: AttributeError)
time_units_check(ds) ==
    IF HasVar(ds, "time") /\ "units" \in ncattrs(GetVar(ds, "time"))
    THEN LET units == GetVar(ds, "time").attrs["units"]
             time_units == units.chars
             time_str == LastN(time_units, 20)
         IN  IF ~IsPyString(units.type) THEN Raise(<<>>)
             ELSE Ok(When(~startswith(time_units, SecondsSince),
                          log_error("4.4.1", <<"units_prefix", time_units>>))
                     \o When(~strptime(time_str),
                             log_error("4.4.1", <<"units_time_format", time_str>>))
                     \o time_units_reference(ds, time_str))
    ELSE Ok(<<>>)

\* 4.4 Coordinate variables, 4.4.1, 4.4.2
Clause_4_4(ds, vb) ==
    LET before == VariableTable_check(coordinate_vars, ds, vb)
                  \o When(HasVar(ds, "time"),
                          AttributeTable_check(time_attrs, GetVar(ds, "time"), vb))
        units == time_units_check(ds)
    IN  IF units.fault THEN Raise(before \o units.out)
        ELSE Ok(before \o units.out
                \o When(HasVar(ds, "range"),
                        AttributeTable_check(range_attrs, GetVar(ds, "range"), vb)
                        \o check_attribute("4.4.2", GetVar(ds, "range"), "range attribute",
                                           "spacing_is_constant", <<"true", "false">>)))

raydim_vars ==
    RegisterVars(VariableTable("ray dimension variable", "4.5"),
        << <<"ray_n_gates", Req, Some(INT), Some(<<"time">>), None>>,
           <<"ray_start_index", Req, Some(INT), Some(<<"time">>), None>> >>)

\* 4.5 Ray dimension variables
Clause_4_5(ds, flag) ==
    IF flag THEN Ok(VariableTable_check(raydim_vars, ds, FALSE))
    ELSE Ok(When(HasVar(ds, "ray_n_gates"),
                 log_error("4.5", <<"must_not_exist", "ray_n_gates">>))
            \o When(HasVar(ds, "ray_start_index"),
                    log_error("4.5", <<"must_not_exist", "ray_start_index">>)))

location_dim(ds) ==
    IF "platform_is_mobile" \in ncattrs(ds) /\ getattr(ds, "platform_is_mobile").value = "true"
    THEN <<"time">> ELSE <<>>

location_vars(dim) ==
    RegisterVars(VariableTable("location variable", "4.6"),
        << <<"latitude", Req, Some(DOUBLE), Some(dim), Some("degrees_north")>>,
           <<"longitude", Req, Some(DOUBLE), Some(dim), Some("degrees_east")>>,
           <<"altitude", Req, Some(DOUBLE), Some(dim), Some("meters")>>,
           <<"altitude_agl", Opt, Some(DOUBLE), Some(dim), Some("meters")>> >>)

\* 4.6 Location variables
Clause_4_6(ds, vb) == Ok(VariableTable_check(location_vars(location_dim(ds)), ds, vb))

sweep_vars ==
    RegisterVars(VariableTable("sweep variable", "4.7"),
        << <<"sweep_number", Req, Some(INT), Some(<<"sweep">>), None>>,
           <<"sweep_mode", Req, Some(CHAR), None, None>>,
           <<"fixed_angle", Req, Some(FLOAT), Some(<<"sweep">>), Some("degrees")>>,
           <<"sweep_start_ray_index", Req, Some(INT), Some(<<"sweep">>), None>>,
           <<"sweep_end_ray_index", Req, Some(INT), Some(<<"sweep">>), None>>,
           <<"target_scan_rate", Opt, Some(FLOAT), Some(<<"sweep">>),
             Some("degrees_per_second")>> >>)

valid_sweep_modes ==
    <<"sector", "coplane", "rhi", "vertical_pointing", "idle", "azimuth_surveillance",
      "elevation_surveillance", "sunscan", "pointing", "manual_ppi", "manual_rhi">>

\* 4.7 Sweep variables
Clause_4_7(ds, vb) ==
    Ok(VariableTable_check(sweep_vars, ds, vb)
       \o check_chararr_variable("4.7", ds, "sweep variable", "sweep_mode", valid_sweep_modes))

sensor_vars ==
    RegisterVars(VariableTable("sensor pointing variable", "4.8"),
        << <<"azimuth", Req, Some(FLOAT), Some(<<"time">>), Some("degrees")>>,
           <<"elevation", Req, Some(FLOAT), Some(<<"time">>), Some("degrees")>>,
           <<"scan_rate", Opt, Some(FLOAT), Some(<<"time">>), Some("degrees_per_second")>>,
           <<"antenna_transition", Opt, Some(BYTE), Some(<<"time">>), None>> >>)

azimuth_attrs ==
    RegisterAttrs(AttributeTable("azimuth attribute", "4.8.1"),
        << <<"standard_name", Req, Some(STRING_), Some("beam_azimuth_angle")>>,
           <<"long_name", Req, Some(STRING_), Some("azimuth_angle_from_true_north")>>,
           <<"units", Req, Some(STRING_), Some("degrees")>>,
           <<"axis", Req, Some(STRING_), Some("radial_azimuth_coordinate")>> >>)

elev_attrs ==
    RegisterAttrs(AttributeTable("elevation attribute", "4.8.2"),
        << <<"standard_name", Req, Some(STRING_), Some("beam_elevation_angle")>>,
           <<"long_name", Req, Some(STRING_), Some("elevation_angle_from_horizontal_plane")>>,
           <<"units", Req, Some(STRING_), Some("degrees")>>,
           <<"axis", Req, Some(STRING_), Some("radial_elevation_coordinate")>> >>)

\* 4.8 Sensor pointing variables, 4.8.1, 4.8.2
Clause_4_8(ds, vb) ==
    Ok(VariableTable_check(sensor_vars, ds, vb)
       \o When(HasVar(ds, "azimuth"),
               AttributeTable_check(azimuth_attrs, GetVar(ds, "azimuth"), vb))
       \o When(HasVar(ds, "elevation"),
               AttributeTable_check(elev_attrs, GetVar(ds, "elevation"), vb)))

georef_names == <<"heading", "roll", "pitch", "drift", "rotation", "tilt">>

georef_vars ==
    RegisterVars(VariableTable("moving platform geo-reference variable", "4.9"),
        [i \in 1..Len(georef_names) |->
            <<georef_names[i], Req, Some(FLOAT), Some(<<"time">>), Some("degrees")>>])

RECURSIVE must_be_omitted(_, _)
\* for v in names: if v in dataset.variables: log_error('4.9', ...)
must_be_omitted(ds, names) ==
    IF names = <<>> THEN <<>>
    ELSE When(HasVar(ds, Head(names)),
              log_error("4.9", <<"must_be_omitted_fixed", Head(names)>>))
         \o must_be_omitted(ds, Tail(names))

\* a clause 4.9 that requires the geo-reference variables of every platform
Clause_4_9_AlwaysRequired(ds, vb, mobile) ==
    Ok(VariableTable_check(georef_vars, ds, vb))

\* 4.9 Moving platform geo-reference variables
Clause_4_9(ds, vb, mobile) ==
    IF mobile THEN Ok(VariableTable_check(georef_vars, ds, vb))
    ELSE Ok(must_be_omitted(ds, georef_names))

FieldTypes == {BYTE, SHORT, INT, FLOAT, DOUBLE}
IntegerTypes == {BYTE, SHORT, INT}

coordinates_value(mobile) ==
    IF mobile THEN "elevation azimuth range heading roll pitch rotation tilt"
    ELSE "elevation azimuth range"

\* the attribute table of one field variable
field_attrs(var, mobile) ==
    RegisterAttrs(AttributeTable("field variable " \o var.name, "4.10"),
        << <<"long_name", Opt, Some(STRING_), None>>,
           <<"standard_name", Req, Some(STRING_), None>>,
           <<"units", Req, Some(STRING_), None>>,
           <<"_FillValue", Req, None, None>> >>
        \o (IF var.dtype \in IntegerTypes
            THEN << <<"scale_factor", Req, Some(FLOAT), None>>,
                    <<"add_offset", Req, Some(FLOAT), None>> >>
            ELSE <<>>)
        \o << <<"coordinates", Req, Some(STRING_), Some(coordinates_value(mobile))>> >>)

RECURSIVE field_variables(_, _, _, _)
\* for var_name, var in dataset.variables.iteritems(), from position i on
field_variables(ds, vb, mobile, i) ==
    IF i > Len(ds.variables) THEN <<>>
    ELSE LET var == ds.variables[i]
         IN  When(var.dimensions = <<"time", "range">>,
                  When(var.dtype \notin FieldTypes,
                       log_error("4.10", <<"invalid_field_type", var.name, var.dtype>>))
                  \o AttributeTable_check(field_attrs(var, mobile), var, vb))
             \o field_variables(ds, vb, mobile, i + 1)

\* 4.10 Moments field data variables
Clause_4_10(ds, vb, mobile) == Ok(field_variables(ds, vb, mobile, 1))

ip_vars ==
    RegisterVars(VariableTable("instrument_parameters variable", "5.1"),
        << <<"frequency", Opt, Some(FLOAT), Some(<<"frequency">>), Some("s-1")>>,
           <<"follow_mode", Opt, Some(CHAR), None, None>>,
           <<"pulse_width", Opt, Some(FLOAT), Some(<<"time">>), Some("seconds")>>,
           <<"prt_mode", Opt, Some(CHAR), None, None>>,
           <<"prt", Opt, Some(FLOAT), Some(<<"time">>), Some("seconds")>>,
           <<"prt_ratio", Opt, Some(FLOAT), Some(<<"time">>), None>>,
           <<"polarization_mode", Opt, Some(CHAR), None, None>>,
           <<"nyquist_velocity", Opt, Some(FLOAT), Some(<<"time">>),
             Some("meters_per_second")>>,
           <<"unambiguous_range", Opt, Some(FLOAT), Some(<<"time">>), Some("meters")>>,
           <<"n_samples", Opt, Some(INT), Some(<<"time">>), None>>,
           \* ('time') is the string 'time', not a tuple
           <<"sampling_ratio", Opt, Some(FLOAT), Some(<<"t", "i", "m", "e">>), None>> >>)

mode_names == <<"follow_mode", "prt_mode", "polarization_mode">>

RECURSIVE first_dimension_sweep(_, _)
\* first dimension should be sweep for _modes variables; dimensions[0] of an empty
\* tuple raises IndexError
first_dimension_sweep(ds, names) ==
    IF names = <<>> THEN Ok(<<>>)
    ELSE LET v == Head(names)
         IN  IF HasVar(ds, v)
             THEN IF GetVar(ds, v).dimensions = <<>> THEN Raise(<<>>)
                  ELSE LET dim_0 == GetVar(ds, v).dimensions[1]
                           here == When(dim_0 # "sweep",
                                        log_error("5.1", <<"first_dimension_not_sweep", v, dim_0>>))
                           more == first_dimension_sweep(ds, Tail(names))
                       IN  [out |-> here \o more.out, fault |-> more.fault]
             ELSE first_dimension_sweep(ds, Tail(names))

valid_follow_modes == <<"none", "sun", "vehicle", "aircraft", "target", "manual">>
valid_prt_modes == <<"fixed", "staggered", "dual">>
valid_polarization_modes == <<"horizontal", "vertical", "hv_alt", "hv_sim", "circular">>

valid_ip_vars ==
    <<"frequency", "follow_mode", "pulse_width", "prt_mode", "prt", "prt_ratio",
      "polarization_mode", "nyquist_velocity", "unambiguous_range", "n_samples",
      "sampling_ratio">>

\* 5.1 The instrument_parameters sub-convention
Clause_5_1(ds, vb) ==
    LET before == VariableTable_check(ip_vars, ds, vb)
        dims == first_dimension_sweep(ds, mode_names)
    IN  IF dims.fault THEN Raise(before \o dims.out)
        ELSE Ok(before \o dims.out
                \o check_chararr_variable("5.1", ds, "instrument_parameters", "follow_mode",
                                          valid_follow_modes)
                \o check_chararr_variable("5.1", ds, "instrument_parameters", "prt_mode",
                                          valid_prt_modes)
                \o check_chararr_variable("5.1", ds, "instrument_parameters",
                                          "polarization_mode", valid_polarization_modes)
                \o check_metagroup("5.1", ds, "instrument_parameters", valid_ip_vars))

rp_vars ==
    RegisterVars(VariableTable("radar_parameters", "5.2"),
        << <<"radar_antenna_gain_h", Opt, Some(FLOAT), Some(<<>>), Some("dB")>>,
           <<"radar_antenna_gain_v", Opt, Some(FLOAT), Some(<<>>), Some("dB")>>,
           <<"radar_beam_width_h", Opt, Some(FLOAT), Some(<<>>), Some("degrees")>>,
           <<"radar_beam_width_v", Opt, Some(FLOAT), Some(<<>>), Some("degrees")>>,
           <<"radar_reciever_bandwidth", Opt, Some(FLOAT), Some(<<>>), Some("s-1")>>,
           <<"radar_measured_transmit_power_h", Opt, Some(FLOAT), Some(<<"time">>),
             Some("dBm")>>,
           <<"radar_measured_transmit_power_b", Opt, Some(FLOAT), Some(<<"time">>),
             Some("dBm")>> >>)

valid_rp_vars ==
    <<"radar_antenna_gain_h", "radar_antenna_gain_v", "radar_beam_width_h",
      "radar_beam_width_v", "radar_reciever_bandwidth", "radar_measured_transmit_power_h",
      "radar_measured_transmit_power_b">>

\* 5.2 The radar_parameters sub-convention
Clause_5_2(ds, vb) ==
    Ok(VariableTable_check(rp_vars, ds, vb)
       \o check_metagroup("5.2", ds, "radar_parameters", valid_rp_vars))

lp_vars ==
    RegisterVars(VariableTable("lidar_parameters", "5.3"),
        << <<"lidar_beam_divergence", Opt, Some(FLOAT), Some(<<>>), Some("milliradians")>>,
           <<"lidar_field_of_view", Opt, Some(FLOAT), Some(<<>>), Some("milliradians")>>,
           <<"lidar_aperature_diameter", Opt, Some(FLOAT), Some(<<>>), Some("cm")>>,
           <<"lidar_aperture_efficiency", Opt, Some(FLOAT), Some(<<>>), Some("percent")>>,
           <<"lidar_peak_power", Opt, Some(FLOAT), Some(<<>>), Some("watts")>>,
           <<"lidar_pulse_energy", Opt, Some(FLOAT), Some(<<>>), Some("joules")>> >>)

\* the list has no comma after 'lidar_aperture_efficiency': Python joins the two
\* adjacent literals into one name
valid_lp_vars ==
    <<"lidar_beam_divergence", "lidar_field_of_view", "lidar_aperature_diameter",
      "lidar_aperture_efficiency" \o "lidar_peak_power", "lidar_pulse_energy">>

\* 5.3 The lidar_parameter sub-convention
Clause_5_3(ds, vb) ==
    Ok(VariableTable_check(lp_vars, ds, vb)
       \o check_metagroup("5.3", ds, "lidar_parameters", valid_lp_vars))

valid_rc_vars ==
    <<"r_calib_index",
      "r_calib_time",
      "r_calib_pulse_width",
      "r_calib_ant_gain_h",
      "r_calib_ant_gain_v",
      "r_calib_xmit_power_h",
      "r_calib_xmit_power_v",
      "r_calib_two_way_waveguide_loss_h",
      "r_calib_two_way_waveguide_loss_v",
      "r_calib_two_way_radome_loss_h",
      "r_calib_two_way_radome_loss_v",
      "r_calib_receiver_mismatch_loss",
      "r_calib_radar_constant_h",
      "r_calib_radar_constant_v",
      "r_calib_noise_hc",
      "r_calib_noise_vc",
      "r_calib_noise_hx",
      "r_calib_noise_vx",
      "r_calib_receiver_gain_hc",
      "r_calib_receiver_gain_vc",
      "r_calib_receiver_gain_hx",
      "r_calib_receiver_gain_vx",
      "r_calib_base_dbz_1km_hc",
      "r_calib_base_dbz_1km_vc",
      "r_calib_base_dbz_1km_hx",
      "r_calib_base_dbz_1km_vx",
      "r_calib_sun_power_hc",
      "r_calib_sun_power_vc",
      "r_calib_sun_power_hx",
      "r_calib_sun_power_vx",
      "r_calib_noise_source_power_h",
      "r_calib_noise_source_power_v",
      "r_calib_power_measure_loss_h",
      "r_calib_power_measure_loss_v",
      "r_calib_coupler_forward_loss_h",
      "r_calib_coupler_forward_loss_v",
      "r_calib_zdr_correction",
      "r_calib_ldr_correction_h",
      "r_calib_ldr_correction_v",
      "r_calib_system_phidp",
      "r_calib_test_power_h",
      "r_calib_test_power_v",
      "r_calib_receiver_slope_hc",
      "r_calib_receiver_slope_vc",
      "r_calib_receiver_slope_hx",
      "r_calib_receiver_slope_vx">>

rc_vars ==
    RegisterVars(VariableTable("radar_calibration", "5.4.2"),
        << <<"r_calib_index", Opt, Some(BYTE), Some(<<"time">>), None>>,
           <<"r_calib_time", Opt, Some(CHAR), None, None>>,
           <<"r_calib_pulse_width", Opt, Some(FLOAT), Some(<<"r_calib">>), Some("seconds")>>,
           <<"r_calib_ant_gain_h", Opt, Some(FLOAT), Some(<<"r_calib">>), Some("dB")>>,
           <<"r_calib_ant_gain_v", Opt, Some(FLOAT), Some(<<"r_calib">>), Some("dB")>>,
           <<"r_calib_xmit_power_h", Opt, Some(FLOAT), Some(<<"r_calib">>), Some("dBm")>>,
           <<"r_calib_xmit_power_v", Opt, Some(FLOAT), Some(<<"r_calib">>), Some("dBm")>>,
           <<"r_calib_two_way_waveguide_loss_h", Opt, Some(FLOAT), Some(<<"r_calib">>), Some("dB")>>,
           <<"r_calib_two_way_waveguide_loss_v", Opt, Some(FLOAT), Some(<<"r_calib">>), Some("dB")>>,
           <<"r_calib_two_way_radome_loss_h", Opt, Some(FLOAT), Some(<<"r_calib">>), Some("dB")>>,
           <<"r_calib_two_way_radome_loss_v", Opt, Some(FLOAT), Some(<<"r_calib">>), Some("dB")>>,
           <<"r_calib_receiver_mismatch_loss", Opt, Some(FLOAT), Some(<<"r_calib">>), Some("dB")>>,
           <<"r_calib_radar_constant_h", Opt, Some(FLOAT), Some(<<"r_calib">>), Some("dB")>>,
           <<"r_calib_radar_constant_v", Opt, Some(FLOAT), Some(<<"r_calib">>), Some("dB")>>,
           <<"r_calib_noise_hc", Opt, Some(FLOAT), Some(<<"r_calib">>), Some("dBm")>>,
           <<"r_calib_noise_vc", Opt, Some(FLOAT), Some(<<"r_calib">>), Some("dBm")>>,
           <<"r_calib_noise_hx", Opt, Some(FLOAT), Some(<<"r_calib">>), Some("dBm")>>,
           <<"r_calib_noise_vx", Opt, Some(FLOAT), Some(<<"r_calib">>), Some("dBm")>>,
           <<"r_calib_receiver_gain_hc", Opt, Some(FLOAT), Some(<<"r_calib">>), Some("dB")>>,
           <<"r_calib_receiver_gain_vc", Opt, Some(FLOAT), Some(<<"r_calib">>), Some("dB")>>,
           <<"r_calib_receiver_gain_hx", Opt, Some(FLOAT), Some(<<"r_calib">>), Some("dB")>>,
           <<"r_calib_receiver_gain_vx", Opt, Some(FLOAT), Some(<<"r_calib">>), Some("dB")>>,
           <<"r_calib_base_dbz_1km_hc", Opt, Some(FLOAT), Some(<<"r_calib">>), Some("dBZ")>>,
           <<"r_calib_base_dbz_1km_vc", Opt, Some(FLOAT), Some(<<"r_calib">>), Some("dBZ")>>,
           <<"r_calib_base_dbz_1km_hx", Opt, Some(FLOAT), Some(<<"r_calib">>), Some("dBZ")>>,
           <<"r_calib_base_dbz_1km_vx", Opt, Some(FLOAT), Some(<<"r_calib">>), Some("dBZ")>>,
           <<"r_calib_sun_power_hc", Opt, Some(FLOAT), Some(<<"r_calib">>), Some("dBm")>>,
           <<"r_calib_sun_power_vc", Opt, Some(FLOAT), Some(<<"r_calib">>), Some("dBm")>>,
           <<"r_calib_sun_power_hx", Opt, Some(FLOAT), Some(<<"r_calib">>), Some("dBm")>>,
           <<"r_calib_sun_power_vx", Opt, Some(FLOAT), Some(<<"r_calib">>), Some("dBm")>>,
           <<"r_calib_noise_source_power_h", Opt, Some(FLOAT), Some(<<"r_calib">>), Some("dBm")>>,
           <<"r_calib_noise_source_power_v", Opt, Some(FLOAT), Some(<<"r_calib">>), Some("dBm")>>,
           <<"r_calib_power_measure_loss_h", Opt, Some(FLOAT), Some(<<"r_calib">>), Some("dB")>>,
           <<"r_calib_power_measure_loss_v", Opt, Some(FLOAT), Some(<<"r_calib">>), Some("dB")>>,
           <<"r_calib_coupler_forward_loss_h", Opt, Some(FLOAT), Some(<<"r_calib">>), Some("dB")>>,
           <<"r_calib_coupler_forward_loss_v", Opt, Some(FLOAT), Some(<<"r_calib">>), Some("dB")>>,
           <<"r_calib_zdr_correction", Opt, Some(FLOAT), Some(<<"r_calib">>), Some("dB")>>,
           <<"r_calib_ldr_correction_h", Opt, Some(FLOAT), Some(<<"r_calib">>), Some("dB")>>,
           <<"r_calib_ldr_correction_v", Opt, Some(FLOAT), Some(<<"r_calib">>), Some("dB")>>,
           <<"r_calib_system_phidp", Opt, Some(FLOAT), Some(<<"r_calib">>), Some("degrees")>>,
           <<"r_calib_test_power_h", Opt, Some(FLOAT), Some(<<"r_calib">>), Some("dBm")>>,
           <<"r_calib_test_power_v", Opt, Some(FLOAT), Some(<<"r_calib">>), Some("dBm")>>,
           <<"r_calib_receiver_slope_hc", Opt, Some(FLOAT), Some(<<"r_calib">>), None>>,
           <<"r_calib_receiver_slope_vc", Opt, Some(FLOAT), Some(<<"r_calib">>), None>>,
           <<"r_calib_receiver_slope_hx", Opt, Some(FLOAT), Some(<<"r_calib">>), None>>,
           <<"r_calib_receiver_slope_vx", Opt, Some(FLOAT), Some(<<"r_calib">>), None>> >>)

RECURSIVE r_calib_time_rows(_, _)
\* for i, time_arr in enumerate(r_calib_time), from row i on
r_calib_time_rows(rows, i) ==
    IF i > Len(rows) THEN <<>>
    ELSE LET s == strip(strip(rows[i], {NUL}), {Blank})
         IN  When(~strptime(s), log_error("5.4.2", <<"r_calib_time_format", i - 1, s>>))
             \o r_calib_time_rows(rows, i + 1)

\* r_calib_time must have r_calib as its first dimension; dimensions[0] of an empty
\* tuple raises IndexError
r_calib_time_check(ds) ==
    IF HasVar(ds, "r_calib_time")
    THEN LET r_calib_time == GetVar(ds, "r_calib_time")
         IN  IF r_calib_time.dimensions = <<>> THEN Raise(<<>>)
             ELSE IF r_calib_time.dimensions[1] # "r_calib"
                  THEN Ok(log_error("5.4.2", <<"r_calib_time_first_dimension",
                                               r_calib_time.dimensions[1]>>))
                  ELSE Ok(r_calib_time_rows(r_calib_time.data, 1))
    ELSE Ok(<<>>)

\* 5.4 The radar_calibration sub-convention, 5.4.2
Clause_5_4(ds, vb) ==
    LET before == check_metagroup("5.4", ds, "radar_calibration", valid_rc_vars)
                  \o VariableTable_check(rc_vars, ds, vb)
        times == r_calib_time_check(ds)
    IN  [out |-> before \o times.out, fault |-> times.fault]

valid_pv_vars ==
    <<"eastward_velocity", "northward_velocity", "vertical_velocity", "eastward_wind",
      "northward_wind", "vertical_wind", "heading_rate", "roll_rate", "pitch_rate">>

pv_units(name) ==
    IF name \in {"heading_rate", "roll_rate", "pitch_rate"} THEN "degrees_per_second"
    ELSE "meters_per_second"

pv_vars ==
    RegisterVars(VariableTable("platform_velocity", "5.6"),
        [i \in 1..Len(valid_pv_vars) |->
            <<valid_pv_vars[i], Req, Some(FLOAT), Some(<<"time">>),
              Some(pv_units(valid_pv_vars[i]))>>])

RECURSIVE should_not_exist(_, _)
\* for var_name in names: if var_name in dataset.variables: log_error('5.6', ...)
should_not_exist(ds, names) ==
    IF names = <<>> THEN <<>>
    ELSE When(HasVar(ds, Head(names)),
              log_error("5.6", <<"should_not_exist_stationary", Head(names)>>))
         \o should_not_exist(ds, Tail(names))

\* a clause 5.6 that checks the platform_velocity table on every platform
Clause_5_6_EveryPlatform(ds, vb, mobile) ==
    Ok(VariableTable_check(pv_vars, ds, vb)
       \o check_metagroup("5.6", ds, "platform_velocity", valid_pv_vars))

\* 5.6 The platform_velocity sub-convention
Clause_5_6(ds, vb, mobile) ==
    IF mobile
    THEN Ok(VariableTable_check(pv_vars, ds, vb)
            \o check_metagroup("5.6", ds, "platform_velocity", valid_pv_vars))
    ELSE Ok(should_not_exist(ds, valid_pv_vars))

valid_gc_vars ==
    <<"azimuth_correction", "elevation_correction", "range_correction",
      "longitude_correction", "latitude_correction", "pressure_altitude_correction",
      "radar_altitude_correction", "eastward_ground_speed_correction",
      "northward_ground_speed_correction", "vertical_velocity_correction",
      "heading_correction", "roll_correction", "pitch_correction", "drift_correction",
      "rotation_correction", "tilt_correction">>

gc_units(name) ==
    IF name \in {"range_correction", "pressure_altitude_correction",
                 "radar_altitude_correction"} THEN "meters"
    ELSE IF name \in {"eastward_ground_speed_correction", "northward_ground_speed_correction",
                      "vertical_velocity_correction"} THEN "meter_per_second"
    ELSE "degrees"

gc_vars ==
    RegisterVars(VariableTable("geometry_correction", "5.7"),
        [i \in 1..Len(valid_gc_vars) |->
            <<valid_gc_vars[i], Opt, Some(FLOAT), Some(<<>>), Some(gc_units(valid_gc_vars[i]))>>])

\* 5.7 The geometry_correction sub-convention
Clause_5_7(ds, vb) ==
    Ok(VariableTable_check(gc_vars, ds, vb)
       \o check_metagroup("5.7", ds, "geometry_correction", valid_gc_vars))

(***************************************************************************)
(* The datasets checked: the global attributes below, with or without the  *)
(* dimension n_points, holding at most MaxVars of the variables below.     *)
(***************************************************************************)
MaxVars == 2

ConventionsChoices ==
    {EmptyMap, StrAttr("Conventions", "CF/Radial-1.2"), StrAttr("Conventions", "CF-1.6"),
     "Conventions" :> AttrValue(INT, <<"1">>)}
MobileChoices ==
    {EmptyMap, StrAttr("platform_is_mobile", "true"), StrAttr("platform_is_mobile", "false")}
GatesVaryChoices ==
    {EmptyMap, StrAttr("n_gates_vary", "true"), StrAttr("n_gates_vary", "false")}

\* the Conventions attribute varies on its own; platform_is_mobile and n_gates_vary vary
\* together, in a file whose Conventions attribute is in order
GlobalAttrChoices ==
    ConventionsChoices
    \cup {StrAttr("Conventions", "CF/Radial-1.2") @@ m @@ g :
             m \in MobileChoices, g \in GatesVaryChoices}

TimeUnits == SecondsSince \o T_Strict

OneOf(variants) == {<<>>} \cup {<<v>> : v \in variants}

Choices_time ==
    OneOf({Var("time", DOUBLE, <<"time">>, "units" :> AttrValue(STRING_, TimeUnits), <<>>),
           Var("time", DOUBLE, <<"time">>, "units" :> AttrValue(FLOAT, <<"1.0">>), <<>>)})
Choices_time_coverage_start ==
    OneOf({TimeVar("time_coverage_start", s) : s \in {T_Strict, T_Unpadded, T_Blank}})
Choices_heading ==
    OneOf({Var("heading", FLOAT, <<"time">>, StrAttr("units", "degrees"), <<>>)})
Choices_roll ==
    OneOf({Var("roll", DOUBLE, <<"time">>, EmptyMap, <<>>)})
Choices_follow_mode ==
    OneOf({Var("follow_mode", CHAR, <<"sweep", "string_length">>,
               StrAttr("meta_group", "instrument_parameters"),
               << <<"none", NUL, NUL>>, <<"sunny">> >>),
           Var("follow_mode", CHAR, <<>>, EmptyMap, <<>>)})
Choices_r_calib_time ==
    OneOf({Var("r_calib_time", CHAR, <<"r_calib", "string_length">>,
               StrAttr("meta_group", "radar_calibration"),
               <<Padded(T_Strict, StringLength), Padded(T_Blank, StringLength)>>),
           Var("r_calib_time", CHAR, <<>>, EmptyMap, <<>>)})
Choices_DBZ ==
    OneOf({Var("DBZ", SHORT, <<"time", "range">>,
               StrAttr("units", "dBZ") @@ StrAttr("coordinates", "elevation azimuth range"),
               <<>>)})

VariableChoices ==
    {vs \in {t \o c \o h \o r \o f \o k \o z :
                t \in Choices_time, c \in Choices_time_coverage_start,
                h \in Choices_heading, r \in Choices_roll, f \in Choices_follow_mode,
                k \in Choices_r_calib_time, z \in Choices_DBZ} :
        Len(vs) <= MaxVars}

\* the dimensions the variables of a file are declared over
UsedDimensions(variables) ==
    UNION {Range(variables[i].dimensions) : i \in DOMAIN variables}

Datasets ==
    {Dataset({"time", "range", "sweep"} \cup np \cup UsedDimensions(vs), a, vs) :
        np \in {{}, {"n_points"}}, a \in GlobalAttrChoices, vs \in VariableChoices}

\* an order of evaluation that checks sub-convention 5.1 before the field variables
Clauses_FieldsLate ==
    <<"3", "4.1", "4.2", "4.3", "4.4", "4.5", "4.6", "4.7", "4.8", "4.9", "5.1", "4.10",
      "5.2", "5.3", "5.4", "5.6", "5.7">>

Clauses ==
    <<"3", "4.1", "4.2", "4.3", "4.4", "4.5", "4.6", "4.7", "4.8", "4.9", "4.10",
      "5.1", "5.2", "5.3", "5.4", "5.6", "5.7">>

ClauseIndex(c) == CHOOSE i \in DOMAIN Clauses : Clauses[i] = c

\* where the function continues after clause c
After(c) == IF ClauseIndex(c) = Len(Clauses) THEN "done" ELSE Clauses[ClauseIndex(c) + 1]

Init ==
    /\ dataset \in Datasets
    /\ verb \in BOOLEAN
    /\ pc = "3"
    /\ log = <<>>
    /\ table = None
    /\ call = [fn |-> "check_cfradial_compliance"]
    /\ n_gates_vary_flag = FALSE
    /\ mobile_platform = FALSE
    /\ run = 1
    /\ firstLog = None

\* clause c runs with result r: its diagnostics are printed, and the function goes on
\* to the next clause unless the clause raised
Step(c, r) ==
    /\ pc = c
    /\ log' = log \o r.out
    /\ pc' = IF r.fault THEN "fault" ELSE After(c)
    /\ UNCHANGED <<dataset, verb, table, call, run, firstLog>>

Do_3 ==
    /\ Step("3", Clause_3(dataset))
    /\ UNCHANGED <<n_gates_vary_flag, mobile_platform>>

Do_4_1 ==
    /\ Step("4.1", Clause_4_1(dataset, verb))
    /\ n_gates_vary_flag' = Compute_n_gates_vary_flag(dataset)
    /\ mobile_platform' = Compute_mobile_platform(dataset)

Do_4_2 ==
    /\ Step("4.2", Clause_4_2(dataset, verb, n_gates_vary_flag))
    /\ UNCHANGED <<n_gates_vary_flag, mobile_platform>>

Do_4_3 ==
    /\ Step("4.3", Clause_4_3(dataset, verb))
    /\ UNCHANGED <<n_gates_vary_flag, mobile_platform>>

Do_4_4 ==
    /\ Step("4.4", Clause_4_4(dataset, verb))
    /\ UNCHANGED <<n_gates_vary_flag, mobile_platform>>

Do_4_5 ==
    /\ Step("4.5", Clause_4_5(dataset, n_gates_vary_flag))
    /\ UNCHANGED <<n_gates_vary_flag, mobile_platform>>

Do_4_6 ==
    /\ Step("4.6", Clause_4_6(dataset, verb))
    /\ UNCHANGED <<n_gates_vary_flag, mobile_platform>>

Do_4_7 ==
    /\ Step("4.7", Clause_4_7(dataset, verb))
    /\ UNCHANGED <<n_gates_vary_flag, mobile_platform>>

Do_4_8 ==
    /\ Step("4.8", Clause_4_8(dataset, verb))
    /\ UNCHANGED <<n_gates_vary_flag, mobile_platform>>

\* a clause 4.9 that repairs the file of a fixed platform: it reports the geo-reference
\* variables and removes them from the dataset
Do_4_9_Repairing ==
    LET r == Clause_4_9(dataset, verb, mobile_platform)
        kept(v) == mobile_platform \/ ~InList(v.name, georef_names)
    IN  /\ pc = "4.9"
        /\ log' = log \o r.out
        /\ pc' = After("4.9")
        /\ dataset' = [dataset EXCEPT !.variables = SelectSeq(@, kept)]
        /\ UNCHANGED <<verb, table, call, run, firstLog, n_gates_vary_flag, mobile_platform>>

Do_4_9 ==
    /\ Step("4.9", Clause_4_9(dataset, verb, mobile_platform))
    /\ UNCHANGED <<n_gates_vary_flag, mobile_platform>>

Do_4_10 ==
    /\ Step("4.10", Clause_4_10(dataset, verb, mobile_platform))
    /\ UNCHANGED <<n_gates_vary_flag, mobile_platform>>

Do_5_1 ==
    /\ Step("5.1", Clause_5_1(dataset, verb))
    /\ UNCHANGED <<n_gates_vary_flag, mobile_platform>>

Do_5_2 ==
    /\ Step("5.2", Clause_5_2(dataset, verb))
    /\ UNCHANGED <<n_gates_vary_flag, mobile_platform>>

Do_5_3 ==
    /\ Step("5.3", Clause_5_3(dataset, verb))
    /\ UNCHANGED <<n_gates_vary_flag, mobile_platform>>

Do_5_4 ==
    /\ Step("5.4", Clause_5_4(dataset, verb))
    /\ UNCHANGED <<n_gates_vary_flag, mobile_platform>>

Do_5_6 ==
    /\ Step("5.6", Clause_5_6(dataset, verb, mobile_platform))
    /\ UNCHANGED <<n_gates_vary_flag, mobile_platform>>

Do_5_7 ==
    /\ Step("5.7", Clause_5_7(dataset, verb))
    /\ UNCHANGED <<n_gates_vary_flag, mobile_platform>>

Next ==
    \/ Do_3 \/ Do_4_1 \/ Do_4_2 \/ Do_4_3 \/ Do_4_4 \/ Do_4_5 \/ Do_4_6 \/ Do_4_7
    \/ Do_4_8 \/ Do_4_9 \/ Do_4_10 \/ Do_5_1 \/ Do_5_2 \/ Do_5_3 \/ Do_5_4 \/ Do_5_6
    \/ Do_5_7

Spec == Init /\ [][Next]_vars

(***************************************************************************)
(* Properties of the table checks                                          *)
(***************************************************************************)
RequiredNames(t) == IF t.class = "AttributeTable" THEN t.required_attrs ELSE t.required_vars
OptionalNames(t) == IF t.class = "AttributeTable" THEN t.optional_attrs ELSE t.optional_vars
Expectations(t) == IF t.class = "AttributeTable" THEN t.attributes ELSE t.variables

\* the name is in the container the table was checked against
Present(t, n) == IF t.class = "AttributeTable" THEN n \in ncattrs(dataset) ELSE HasVar(dataset, n)

TableChecked == pc = "returned" /\ call.fn \in {"AttributeTable.check", "VariableTable.check"}

MissesRequired == \A n \in Range(RequiredNames(table)) : ~Present(table, n)

RequiredMissing(t, n) ==
    [kind |-> "ERROR", section |-> t.section, msg |-> <<"required_missing", t.text, n>>]
OptionalMissing(t, n) ==
    [kind |-> "NOTE", section |-> t.section, msg |-> <<"optional_missing", t.text, n>>]

IsNote(e) == e.kind = "NOTE"
IsError(e) == e.kind = "ERROR"
OptionalAbsent(n) == ~Present(table, n)

MismatchCodes ==
    {"incorrect_type", "incorrect_value", "incorrect_dimensions", "missing_unit",
     "incorrect_units"}

\* C1 as stated: on a container that holds none of the required names, check() emits
\* exactly one ERROR per required name, in registration order, and no diagnostic at all
\* for an optional name when verb is false (one NOTE per absent optional name, after
\* the required-name diagnostics, when verb is true).
C1_AsStated ==
    (TableChecked /\ MissesRequired) =>
        LET R == RequiredNames(table)
            O == OptionalNames(table)
            n == Len(R)
        IN  /\ Len(log) >= n
            /\ \A i \in 1..n : log[i] = RequiredMissing(table, R[i])
            /\ \A name \in Range(R) :
                  Cardinality({i \in DOMAIN log : IsError(log[i]) /\ log[i].msg[3] = name}) = 1
            /\ ~verb => Len(log) = n
            /\ verb => /\ Len(log) = n + Len(SelectSeq(O, OptionalAbsent))
                       /\ \A i \in (n + 1)..Len(log) : IsNote(log[i])

\* C1, amended: on a container that holds none of the required names, check() emits
\* first one "Required ... missing" ERROR per registration of a required name, in
\* registration order; after them, for the optional registrations in order, one NOTE
\* per absent optional name when verb is true and nothing for it when verb is false;
\* an optional name that is present yields only the mismatch ERRORs of its comparison.
C1_MissingRequiredReported ==
    (TableChecked /\ MissesRequired) =>
        LET R == RequiredNames(table)
            O == OptionalNames(table)
            n == Len(R)
            rest == SubSeq(log, n + 1, Len(log))
            absent == SelectSeq(O, OptionalAbsent)
        IN  /\ Len(log) >= n
            /\ \A i \in 1..n : log[i] = RequiredMissing(table, R[i])
            /\ SelectSeq(rest, IsNote) =
                  IF verb THEN [i \in 1..Len(absent) |-> OptionalMissing(table, absent[i])]
                  ELSE <<>>
            /\ \A i \in DOMAIN rest :
                  IsError(rest[i]) =>
                      /\ rest[i].msg[1] \in MismatchCodes
                      /\ rest[i].msg[3] \in Range(O)
                      /\ Present(table, rest[i].msg[3])

\* C1 witness: one required name missing and one optional name present whose comparison
\* fails: the check reports both.
C1_Witness ==
    /\ TableChecked /\ MissesRequired /\ ~verb
    /\ Len(RequiredNames(table)) = 1 /\ Len(OptionalNames(table)) = 1
    /\ Present(table, OptionalNames(table)[1])
    /\ Len(log) >= 2

\* the field of an expectation that a diagnostic code is about
FieldOf(code) ==
    CASE code = "incorrect_type" -> "type"
      [] code = "incorrect_value" -> "value"
      [] code = "incorrect_dimensions" -> "dim"
      [] code \in {"missing_unit", "incorrect_units"} -> "units"
      [] OTHER -> "none"

\* the expected field of that name in the table (None: no expectation)
ExpectedField(t, n, field) ==
    LET e == Expectations(t)[n]
    IN  IF t.class = "AttributeTable"
        THEN (IF field = "type" THEN e._type ELSE IF field = "value" THEN e.value ELSE None)
        ELSE (IF field = "type" THEN e.dtype ELSE IF field = "dim" THEN e.dim
              ELSE IF field = "units" THEN e.units ELSE None)

ObservedTypes == {STRING_, INT, FLOAT, DOUBLE, CHAR}
ObservedValues == {"radar", "lidar", "7", "seconds", "s-1"}
ObservedDims == {<<>>, <<"time">>, <<"sweep">>, <<"time", "range">>}

\* C2: an expectation whose expected field is None never reports that field: its
\* predicate is False for every observed value, and the check of a present item emits no
\* mismatch (or missing-units) ERROR for a field the table declares as None.
C2_Permissive ==
    /\ table # None =>
          \A n \in DOMAIN Expectations(table) :
              LET e == Expectations(table)[n]
              IN  IF table.class = "AttributeTable"
                  THEN /\ e._type = None => \A t \in ObservedTypes : ~type_bad(e, t)
                       /\ e.value = None => \A v \in ObservedValues : ~value_bad(e, v)
                  ELSE /\ e.dtype = None => \A t \in ObservedTypes : ~dtype_bad(e, t)
                       /\ e.dim = None => \A d \in ObservedDims : ~dim_bad(e, d)
                       /\ e.units = None => \A u \in ObservedValues : ~units_bad(e, u)
    /\ TableChecked =>
          \A i \in DOMAIN log :
              log[i].msg[1] \in MismatchCodes =>
                  ExpectedField(table, log[i].msg[3], FieldOf(log[i].msg[1])) # None

\* C2 witness: a present attribute whose observed type is not the usual one, registered
\* with no expected type but an expected value: only the value is reported.
C2_Witness ==
    /\ TableChecked /\ table.class = "AttributeTable"
    /\ \E n \in Range(OptionalNames(table)) :
          /\ n \in ncattrs(dataset)
          /\ getattr(dataset, n).type = INT
          /\ table.attributes[n]._type = None
          /\ table.attributes[n].value # None
          /\ \E i \in DOMAIN log : log[i].msg[1] = "incorrect_value" /\ log[i].msg[3] = n

(***************************************************************************)
(* Properties of check_metagroup and check_valid_time_format               *)
(***************************************************************************)
MetaChecked == pc = "returned" /\ call.fn = "check_metagroup"

\* the diagnostics of the log about variable name n, by code
MetaEvents(code, n) ==
    {i \in DOMAIN log :
        /\ log[i].kind = "ERROR" /\ log[i].msg[1] = code
        /\ (IF code = "metagroup_not_member" THEN log[i].msg[2] ELSE log[i].msg[3]) = n}

MetaCodes == {"metagroup_attr_missing", "metagroup_incorrect", "metagroup_not_member"}

\* what the claim expects for dataset variable v
MetaExpected(v, label, canonical) ==
    IF InList(v.name, canonical)
    THEN IF "meta_group" \notin DOMAIN v.attrs THEN "metagroup_attr_missing"
         ELSE IF Join(v.attrs["meta_group"].chars) # label THEN "metagroup_incorrect"
         ELSE "none"
    ELSE IF "meta_group" \in DOMAIN v.attrs /\ Join(v.attrs["meta_group"].chars) = label
         THEN "metagroup_not_member"
         ELSE "none"

\* C6: check_metagroup emits exactly one ERROR for each canonical name present without
\* a meta_group attribute, one (different) ERROR for each canonical name present with
\* another meta_group, one ERROR for each other variable tagged with the label, and
\* nothing else.
C6_MetagroupExact ==
    MetaChecked =>
        LET label == call.meta_group_name
            canonical == call.valid_meta_group_vars
            flagged == {k \in DOMAIN dataset.variables :
                           MetaExpected(dataset.variables[k], label, canonical) # "none"}
        IN  /\ \A k \in DOMAIN dataset.variables :
                  \A c \in MetaCodes :
                      Cardinality(MetaEvents(c, dataset.variables[k].name)) =
                          IF MetaExpected(dataset.variables[k], label, canonical) = c
                          THEN 1 ELSE 0
            /\ Len(log) = Cardinality(flagged)
            /\ \A i \in DOMAIN log : log[i].section = "5.1" /\ log[i].msg[1] \in MetaCodes

\* C6 witness: canonical (frequency, prt), frequency tagged with the label, prt absent,
\* nyquist_velocity tagged with the label: exactly one ERROR, naming nyquist_velocity.
C6_Witness ==
    /\ MetaChecked
    /\ call.valid_meta_group_vars = <<"frequency", "prt">>
    /\ call.meta_group_name = "instrument_parameters"
    /\ HasVar(dataset, "frequency") /\ ~HasVar(dataset, "prt")
    /\ HasVar(dataset, "nyquist_velocity")
    /\ "meta_group" \in ncattrs(GetVar(dataset, "frequency"))
    /\ getattr(GetVar(dataset, "frequency"), "meta_group").value = "instrument_parameters"
    /\ "meta_group" \in ncattrs(GetVar(dataset, "nyquist_velocity"))
    /\ getattr(GetVar(dataset, "nyquist_velocity"), "meta_group").value = "instrument_parameters"
    /\ log = log_error("5.1", <<"metagroup_not_member", "nyquist_velocity",
                                "instrument_parameters">>)

\* The strict format YYYY-MM-DDThh:mm:ssZ: twenty characters, two-digit fields (four
\* for the year), the separators - - T : : Z, and values that exist in the calendar.
StrictUTC(s) ==
    /\ Len(s) = 20
    /\ \A k \in {1, 2, 3, 4, 6, 7, 9, 10, 12, 13, 15, 16, 18, 19} : s[k] \in Digits
    /\ s[5] = "-" /\ s[8] = "-" /\ s[11] = "T" /\ s[14] = ":" /\ s[17] = ":" /\ s[20] = "Z"
    /\ LET num(k) == 10 * DigitVal(s[k]) + DigitVal(s[k + 1])
           year == 100 * num(1) + num(3)
       IN  /\ year >= 1
           /\ num(6) \in 1..12
           /\ num(9) >= 1 /\ num(9) <= DaysInMonth(year, num(6))
           /\ num(12) <= 23 /\ num(15) <= 59 /\ num(18) <= 61

TimeChecked == pc = "returned" /\ call.fn = "check_valid_time_format"

\* C9: check_valid_time_format emits nothing when the variable is absent, nothing when
\* its decoded string is in the strict format YYYY-MM-DDThh:mm:ssZ, and exactly one
\* ERROR for any other decoded string.
C9_StrictTimeFormat ==
    TimeChecked =>
        IF ~HasVar(dataset, call.var_name) THEN log = <<>>
        ELSE IF StrictUTC(chartostring(GetVar(dataset, call.var_name).data[1])) THEN log = <<>>
        ELSE Len(log) = 1 /\ log[1].kind = "ERROR" /\ log[1].section = "4.3"

(***************************************************************************)
(* Properties of check_cfradial_compliance                                 *)
(***************************************************************************)
\* the run is over: the function returned or raised
Ended == pc \in {"done", "fault"}

\* clause c has been checked and the function went on
Past(c) == pc = "done" \/ (pc \in Range(Clauses) /\ ClauseIndex(pc) > ClauseIndex(c))

\* the number of diagnostics of the log that satisfy Test
Count(Test(_)) == Cardinality({i \in DOMAIN log : Test(log[i])})

\* C3: check_cfradial_compliance never aborts: whatever the dataset, no clause raises
\* to the caller.
C3_NeverAborts == pc # "fault"

\* what the dataset says about the platform and the gates
IsMobile(ds) ==
    "platform_is_mobile" \in DOMAIN ds.attrs /\ Join(ds.attrs["platform_is_mobile"].chars) = "true"
GatesVary(ds) ==
    "n_gates_vary" \in DOMAIN ds.attrs /\ Join(ds.attrs["n_gates_vary"].chars) = "true"

GeoRef == {"heading", "roll", "pitch", "drift", "rotation", "tilt"}

GeoRefGating ==
    \A v \in GeoRef :
        LET omitted(e) == e.section = "4.9" /\ e.msg[1] = "must_be_omitted_fixed" /\ e.msg[2] = v
            missing(e) == e.section = "4.9" /\ e.msg[1] = "required_missing" /\ e.msg[3] = v
        IN  IF IsMobile(dataset)
            THEN /\ Count(omitted) = 0
                 /\ ~HasVar(dataset, v) => Count(missing) = 1
            ELSE /\ Count(omitted) = (IF HasVar(dataset, v) THEN 1 ELSE 0)
                 /\ Count(missing) = 0

\* C4: geo-reference gating: on a platform that is not mobile each of heading, roll,
\* pitch, drift, rotation, tilt that is present yields exactly one clause-4.9 ERROR and
\* each absent one none; on a mobile platform each absent one yields exactly one
\* "Required ... missing" ERROR and none a must-be-omitted ERROR.
C4_GeoRefGating == Ended => GeoRefGating

\* The gating of clause 4.9 in the runs that get as far as clause 4.9.
C4_GatingWhenReached == Past("4.9") => GeoRefGating

NPointsGating ==
    LET npoints(e) == e.section = "4.2" /\ e.msg[2] = "n_points"
        present == "n_points" \in dataset.dimensions
    IN  Count(npoints) = (IF GatesVary(dataset) # present THEN 1 ELSE 0)

\* C5: n_points gating: n_gates_vary_flag is true iff the global attribute n_gates_vary
\* is present and equals "true"; exactly one clause-4.2 ERROR about n_points is emitted
\* when the flag is true and the dimension absent, or the flag false and the dimension
\* present, and none otherwise.
C5_NPointsGating ==
    /\ Past("4.1") => (n_gates_vary_flag = GatesVary(dataset))
    /\ Ended => NPointsGating

\* The gating of clause 4.2 in the runs that get as far as clause 4.2.
C5_GatingWhenReached ==
    /\ Past("4.1") => (n_gates_vary_flag = GatesVary(dataset))
    /\ Past("4.2") => NPointsGating

\* the dataset with the dimensions time, range and sweep and nothing else
IsMinimal(ds) ==
    /\ ds.dimensions = {"time", "range", "sweep"}
    /\ DOMAIN ds.attrs = {}
    /\ ds.variables = <<>>

MinimalExpected ==
    LET miss(section, text, names) ==
            [i \in 1..Len(names) |->
                [kind |-> "ERROR", section |-> section,
                 msg |-> <<"required_missing", text, names[i]>>]]
    IN  miss("4.1", "global attribute",
             <<"Conventions", "title", "institution", "references", "source", "history",
               "comment", "instrument_name">>)
        \o miss("4.3", "global variable",
                <<"volume_number", "time_coverage_start", "time_coverage_end">>)
        \o miss("4.4", "coordinate variable", <<"time", "range">>)
        \o miss("4.6", "location variable", <<"latitude", "longitude", "altitude">>)
        \o miss("4.7", "sweep variable",
                <<"sweep_number", "sweep_mode", "fixed_angle", "sweep_start_ray_index",
                  "sweep_end_ray_index">>)
        \o miss("4.8", "sensor pointing variable", <<"azimuth", "elevation">>)

\* C7: on the dataset with exactly the dimensions time, range, sweep, no global attribute
\* and no variable, a run with verb false ends normally having emitted one "Required ...
\* missing" ERROR for every required clause-4 global attribute, global variable,
\* coordinate, location, sweep and sensor-pointing variable, and nothing else: nothing
\* from clauses 4.2, 4.5, 4.9, 4.10 and nothing from clause 5.
C7_MinimalDataset ==
    (IsMinimal(dataset) /\ ~verb /\ run = 1) =>
        /\ pc # "fault"
        /\ pc = "done" => log = MinimalExpected
        /\ \A i \in DOMAIN log :
              log[i].section \notin {"4.2", "4.5", "4.9", "4.10", "5.1", "5.2", "5.3",
                                     "5.4", "5.4.2", "5.6", "5.7"}

\* C7 witness: the run on the minimal dataset has returned.
C7_Witness == IsMinimal(dataset) /\ ~verb /\ run = 1 /\ pc = "done" /\ Len(log) = 23

\* the optional names of the table that clause `section` checks against object obj, and
\* whether name n is absent from what it is checked against
NoteJustified(e) ==
    LET n == e.msg[3]
        absentVar(t) == n \in Range(t.optional_vars) /\ ~HasVar(dataset, n)
        absentAttr(t, obj) == n \in Range(t.optional_attrs) /\ n \notin ncattrs(obj)
        attrOfVar(t, v) == HasVar(dataset, v) /\ absentAttr(t, GetVar(dataset, v))
    IN  /\ e.msg[1] = "optional_missing"
        /\ CASE e.section = "4.1" -> absentAttr(global_attrs, dataset)
             [] e.section = "4.3" -> absentVar(global_vars)
             [] e.section = "4.4.2" -> attrOfVar(range_attrs, "range")
             [] e.section = "4.6" -> absentVar(location_vars(location_dim(dataset)))
             [] e.section = "4.7" -> absentVar(sweep_vars)
             [] e.section = "4.8" -> absentVar(sensor_vars)
             [] e.section = "4.10" ->
                    \E k \in DOMAIN dataset.variables :
                        /\ dataset.variables[k].dimensions = <<"time", "range">>
                        /\ e.msg[2] = "field variable " \o dataset.variables[k].name
                        /\ absentAttr(field_attrs(dataset.variables[k], mobile_platform),
                                      dataset.variables[k])
             [] e.section = "5.1" -> absentVar(ip_vars)
             [] e.section = "5.2" -> absentVar(rp_vars)
             [] e.section = "5.3" -> absentVar(lp_vars)
             [] e.section = "5.4.2" -> absentVar(rc_vars)
             [] e.section = "5.7" -> absentVar(gc_vars)
             [] OTHER -> FALSE

\* C10: with verb false no NOTE is ever emitted; a NOTE is emitted only with verb true
\* and only for an optional attribute, variable or dimension that is absent.
C10_NotesOnlyWhenVerbose ==
    \A i \in DOMAIN log :
        IsNote(log[i]) =>
            /\ verb
            /\ \/ /\ log[i].section = "4.2"
                  /\ log[i].msg = <<"optional_dimension_missing", "frequency">>
                  /\ "frequency" \notin dataset.dimensions
               \/ /\ log[i].section # "4.2"
                  /\ NoteJustified(log[i])

\* C10 witness: a run with verb false has returned with diagnostics, on a dataset that
\* lacks optional items (the optional variable altitude_agl, the dimension frequency).
C10_Witness ==
    /\ ~verb /\ pc = "done" /\ Len(log) > 0
    /\ ~HasVar(dataset, "altitude_agl") /\ "frequency" \notin dataset.dimensions

(***************************************************************************)
(* Two runs over the same dataset                                          *)
(***************************************************************************)
\* the caller calls check_cfradial_compliance(dataset, verb) once more
Rerun ==
    /\ Ended
    /\ run = 1
    /\ run' = 2
    /\ firstLog' = [log |-> log, pc |-> pc]
    /\ log' = <<>>
    /\ pc' = "3"
    /\ n_gates_vary_flag' = FALSE
    /\ mobile_platform' = FALSE
    /\ UNCHANGED <<dataset, verb, table, call>>

NextTwice == Next \/ Rerun

SpecTwice == Init /\ [][NextTwice]_vars

SameDiagnostics == (run = 2 /\ Ended) => (log = firstLog.log /\ pc = firstLog.pc)

ClauseOf(section) ==
    CASE section \in {"4.4.1", "4.4.2"} -> "4.4"
      [] section \in {"4.8.1", "4.8.2"} -> "4.8"
      [] section = "5.4.2" -> "5.4"
      [] OTHER -> section

\* the clauses in the order of the standard
StandardOrder ==
    <<"3", "4.1", "4.2", "4.3", "4.4", "4.5", "4.6", "4.7", "4.8", "4.9", "4.10",
      "5.1", "5.2", "5.3", "5.4", "5.6", "5.7">>

\* the position of each clause in that order
RankOf == [c \in Range(StandardOrder) |-> CHOOSE k \in DOMAIN StandardOrder : StandardOrder[k] = c]

Rank(section) == RankOf[ClauseOf(section)]

GroupedByClause ==
    /\ \A i \in DOMAIN log : ClauseOf(log[i].section) \in DOMAIN RankOf
    /\ \A i \in 1..(Len(log) - 1) : Rank(log[i].section) <= Rank(log[i + 1].section)

IsPrefix(s, t) == Len(s) <= Len(t) /\ SubSeq(t, 1, Len(s)) = s

\* C11 as stated: the clause-4.1 diagnostics come first in the diagnostic sequence, and
\* the diagnostics are grouped by clause in the order 4.1, 4.2, ..., 5.7.
C11_AsStated ==
    /\ GroupedByClause
    /\ (\E i \in DOMAIN log : log[i].section = "4.1") => log[1].section = "4.1"

\* C11, amended: the diagnostic sequence only grows at its end, and its diagnostics are
\* grouped by clause in the order 3, 4.1, 4.2, ..., 5.7: the clause-3 diagnostic (a
\* Conventions attribute without 'CF/Radial'), if any, comes first, the clause-4.1
\* diagnostics next, and no diagnostic of an earlier clause follows one of a later clause.
C11_SectionOrder == []GroupedByClause /\ [][IsPrefix(log, log')]_vars

\* C11 witness: a finished run whose diagnostics come from clause 3, clause 4.1, clause
\* 4.10 and clause 5.
C11_Witness ==
    /\ pc = "done"
    /\ \A c \in {"3", "4.1", "4.4.1", "4.10", "5.1", "5.4.2"} :
          \E i \in DOMAIN log : log[i].section = c

(***************************************************************************)
(* Runs over datasets chosen for one clause each                           *)
(***************************************************************************)
\* every list that keeps, in order, some of the elements of s
RECURSIVE Sublists(_)
Sublists(s) ==
    IF s = <<>> THEN {<<>>}
    ELSE LET rest == Sublists(Tail(s))
         IN  rest \cup {<<Head(s)>> \o r : r \in rest}

InOrder == StrAttr("Conventions", "CF/Radial-1.2")

\* Files of fixed and mobile platforms, with and without varying gates, holding some of
\* the platform_velocity and ray dimension variables.
GatingVariables ==
    {v \o n \o s :
        v \in Sublists(<<Var("eastward_velocity", FLOAT, <<"time">>,
                             StrAttr("units", "meters_per_second")
                             @@ StrAttr("meta_group", "platform_velocity"), <<>>),
                         Var("northward_velocity", FLOAT, <<"time">>,
                             StrAttr("units", "meters_per_second"), <<>>),
                         Var("heading_rate", DOUBLE, <<"time">>,
                             StrAttr("units", "degrees_per_second")
                             @@ StrAttr("meta_group", "platform_velocity"), <<>>)>>),
        n \in OneOf({Var("ray_n_gates", INT, <<"time">>, EmptyMap, <<>>),
                     Var("ray_n_gates", SHORT, <<"sweep">>, EmptyMap, <<>>)}),
        s \in OneOf({Var("ray_start_index", INT, <<"time">>,
                         StrAttr("meta_group", "platform_velocity"), <<>>)})}

GatingDatasets ==
    {Dataset({"time", "range", "sweep"} \cup UsedDimensions(vs), InOrder @@ m @@ g, vs) :
        m \in MobileChoices, g \in GatesVaryChoices, vs \in GatingVariables}

\* Files whose time coordinate carries one of several units, with and without the
\* variables time_reference and time_coverage_start.
TimeUnitsChoices ==
    {SecondsSince \o T_Strict, <<"d", "a", "y", "s", " ">> \o SecondsSince \o T_Other,
     <<"s", "i", "n", "c", "e", " ">> \o T_Strict, SecondsSince \o T_Feb30,
     <<"s", "e", "c", "o", "n", "d", "s">>}

TimeDatasets ==
    {Dataset({"time", "range", "sweep", "string_length"}, InOrder, t \o r \o c) :
        t \in {<<>>, <<Var("time", DOUBLE, <<"time">>, EmptyMap, <<>>)>>}
              \cup {<<Var("time", DOUBLE, <<"time">>, "units" :> AttrValue(STRING_, u), <<>>)>> :
                      u \in TimeUnitsChoices},
        r \in OneOf({TimeVar("time_reference", x) : x \in {T_Strict, T_Other}}),
        c \in OneOf({TimeVar("time_coverage_start", x) : x \in {T_Strict, T_Other}})}

\* Files of fixed and mobile platforms holding a variable DBZ over (time, range), of one
\* of four types and with or without its coordinates, scale_factor and add_offset
\* attributes, and possibly a variable ZDR over other dimensions.
FieldAttrChoices ==
    {c @@ p : c \in {EmptyMap, StrAttr("coordinates", "elevation azimuth range"),
                     StrAttr("coordinates",
                             "elevation azimuth range heading roll pitch rotation tilt")},
              p \in {EmptyMap, "scale_factor" :> AttrValue(FLOAT, <<"0.5">>),
                     ("scale_factor" :> AttrValue(FLOAT, <<"0.5">>))
                     @@ ("add_offset" :> AttrValue(FLOAT, <<"0.0">>))}}

FieldDatasets ==
    {Dataset({"time", "range", "sweep"}, InOrder @@ m, f \o o) :
        m \in MobileChoices,
        f \in OneOf({Var("DBZ", t, <<"time", "range">>, a, <<>>) :
                        t \in {BYTE, SHORT, DOUBLE, CHAR}, a \in FieldAttrChoices}),
        o \in OneOf({Var("ZDR", CHAR, <<"range", "time">>, EmptyMap, <<>>),
                     Var("ZDR", CHAR, <<"time">>, EmptyMap, <<>>),
                     Var("ZDR", CHAR, <<"time", "range", "sweep">>, EmptyMap, <<>>)})}

\* Files with lidar parameters, tagged with the sub-convention's label or untagged.
LidarVariables ==
    {p \o e \o b :
        p \in OneOf({Var("lidar_peak_power", FLOAT, <<>>,
                         StrAttr("units", "watts")
                         @@ StrAttr("meta_group", "lidar_parameters"), <<>>),
                     Var("lidar_peak_power", FLOAT, <<>>, StrAttr("units", "watts"), <<>>)}),
        e \in OneOf({Var("lidar_aperture_efficiency", FLOAT, <<>>,
                         StrAttr("units", "percent")
                         @@ StrAttr("meta_group", "lidar_parameters"), <<>>),
                     Var("lidar_aperture_efficiency", FLOAT, <<>>,
                         StrAttr("units", "percent"), <<>>)}),
        b \in OneOf({Var("lidar_beam_divergence", FLOAT, <<>>,
                         StrAttr("units", "milliradians")
                         @@ StrAttr("meta_group", "lidar_parameters"), <<>>),
                     Var("lidar_beam_divergence", FLOAT, <<>>,
                         StrAttr("units", "milliradians"), <<>>)})}

LidarDatasets ==
    {Dataset({"time", "range", "sweep"}, InOrder, vs) : vs \in LidarVariables}

CaseDatasets == GatingDatasets \cup TimeDatasets \cup FieldDatasets \cup LidarDatasets

InitCases ==
    /\ dataset \in CaseDatasets
    /\ verb \in BOOLEAN
    /\ pc = "3"
    /\ log = <<>>
    /\ table = None
    /\ call = [fn |-> "check_cfradial_compliance"]
    /\ n_gates_vary_flag = FALSE
    /\ mobile_platform = FALSE
    /\ run = 1
    /\ firstLog = None

SpecCases == InitCases /\ [][Next]_vars

(***************************************************************************)
(* Properties of the sub-conventions                                       *)
(***************************************************************************)
SubConventionSections == {"5.1", "5.2", "5.3", "5.4", "5.4.2", "5.6", "5.7"}

IsRequiredMissing(e) == e.kind = "ERROR" /\ e.msg[1] = "required_missing"

\* the "Required ... missing" ERRORs of section `section` about variable v
MissingIn(section, v) ==
    {i \in DOMAIN log : IsRequiredMissing(log[i]) /\ log[i].section = section /\ log[i].msg[3] = v}

\* C12 as stated: the absence of a sub-convention variable never produces an ERROR, and
\* every clause-5 variable table contains only optional entries.
C12_AsStated ==
    /\ \A i \in DOMAIN log :
          log[i].section \in SubConventionSections => ~IsRequiredMissing(log[i])
    /\ pc = "done" =>
          \A t \in {ip_vars, rp_vars, lp_vars, rc_vars, pv_vars, gc_vars} :
              t.required_vars = <<>>

\* C12, amended: the variable tables of sections 5.1, 5.2, 5.3, 5.4.2 and 5.7 contain
\* only optional entries and the absence of one of their variables never produces an
\* ERROR; the table of section 5.6 contains only required entries, and the absence of
\* one of its nine variables produces a "Required ... missing" ERROR exactly when
\* mobile_platform is true.
C12_OptionalExceptVelocity ==
    /\ \A i \in DOMAIN log :
          (log[i].section \in SubConventionSections /\ IsRequiredMissing(log[i])) =>
              /\ log[i].section = "5.6"
              /\ IsMobile(dataset)
              /\ ~HasVar(dataset, log[i].msg[3])
    /\ Past("5.6") =>
          \A k \in DOMAIN valid_pv_vars :
              Cardinality(MissingIn("5.6", valid_pv_vars[k])) =
                  IF IsMobile(dataset) /\ ~HasVar(dataset, valid_pv_vars[k]) THEN 1 ELSE 0
    /\ \A t \in {ip_vars, rp_vars, lp_vars, rc_vars, gc_vars} :
          t.required_vars = <<>> /\ t.optional_vars # <<>>
    /\ pv_vars.required_vars = valid_pv_vars /\ pv_vars.optional_vars = <<>>

\* C12 witness: on a mobile platform that carries eastward_velocity but not
\* northward_velocity, clause 5.6 has reported the absent variable and not the present
\* one, and the run has returned.
C12_Witness ==
    /\ pc = "done" /\ IsMobile(dataset)
    /\ HasVar(dataset, "eastward_velocity") /\ ~HasVar(dataset, "northward_velocity")
    /\ Cardinality(MissingIn("5.6", "northward_velocity")) = 1
    /\ MissingIn("5.6", "eastward_velocity") = {}

(***************************************************************************)
(* Properties of the units of the time coordinate                          *)
(***************************************************************************)
\* the number of section 4.4.1 ERRORs of the log with that code
TimeUnitErrors(code) ==
    Cardinality({i \in DOMAIN log :
                    log[i].kind = "ERROR" /\ log[i].section = "4.4.1" /\ log[i].msg[1] = code})

Decoded(name) == chartostring(GetVar(dataset, name).data[1])

B2N(b) == IF b THEN 1 ELSE 0

\* (units that are a character string; the claim is about their characters)
TimeUnitsExpected ==
    IF /\ HasVar(dataset, "time") /\ "units" \in ncattrs(GetVar(dataset, "time"))
       /\ GetVar(dataset, "time").attrs["units"].type = STRING_
    THEN LET u == GetVar(dataset, "time").attrs["units"].chars
             last == IF Len(u) <= 20 THEN u ELSE SubSeq(u, Len(u) - 19, Len(u))
             ref == HasVar(dataset, "time_reference")
             start == HasVar(dataset, "time_coverage_start")
         IN  /\ TimeUnitErrors("units_prefix") =
                    B2N(~(Len(u) >= 14 /\ SubSeq(u, 1, 14) = SecondsSince))
             /\ TimeUnitErrors("units_time_format") = B2N(~strptime(last))
             /\ TimeUnitErrors("units_not_time_reference") =
                    B2N(ref /\ Decoded("time_reference") # last)
             /\ TimeUnitErrors("units_not_time_coverage_start") =
                    B2N(~ref /\ start /\ Decoded("time_coverage_start") # last)
    ELSE (HasVar(dataset, "time") /\ "units" \in ncattrs(GetVar(dataset, "time")))
         \/ \A code \in {"units_prefix", "units_time_format", "units_not_time_reference",
                          "units_not_time_coverage_start"} : TimeUnitErrors(code) = 0

\* C13: when time has a units attribute its trailing 20 characters are compared with the
\* decoded time_reference if that variable is present, otherwise with time_coverage_start
\* if present, otherwise with nothing; a cross-reference ERROR is emitted iff the value
\* consulted differs (so at most one per run), and the prefix ERROR and the timestamp-format
\* ERROR are each emitted whatever the other checks find.
C13_TimeUnitsCrossReference == Ended => TimeUnitsExpected

\* The checks of the time units in the runs that get past clause 4.4.
C13_WhenReached == Past("4.4") => TimeUnitsExpected

(***************************************************************************)
(* Properties of check_var on a variable that is present                   *)
(***************************************************************************)
VarTableChecked == pc = "returned" /\ call.fn = "VariableTable.check"

\* the codes of the diagnostics of the log about name n, in order
CodesAbout(n) ==
    LET about(e) == e.msg[3] = n
        es == SelectSeq(log, about)
    IN  [i \in 1..Len(es) |-> es[i].msg[1]]

\* how many times name n was registered
TimesRegistered(t, n) ==
    LET is(x) == x = n
    IN  Len(SelectSeq(RequiredNames(t), is)) + Len(SelectSeq(OptionalNames(t), is))

RECURSIVE Repeat(_, _)
Repeat(s, k) == IF k = 0 THEN <<>> ELSE s \o Repeat(s, k - 1)

\* the codes the claim expects for present variable v under expectation e
ExpectedVarCodes(e, v) ==
    (IF e.dtype # None /\ e.dtype # <<v.dtype>> THEN <<"incorrect_type">> ELSE <<>>)
    \o (IF e.dim # None /\ e.dim # <<v.dimensions>> THEN <<"incorrect_dimensions">> ELSE <<>>)
    \o (IF e.units = None THEN <<>>
        ELSE IF "units" \notin DOMAIN v.attrs THEN <<"missing_unit">>
        ELSE IF e.units # <<Join(v.attrs["units"].chars)>> THEN <<"incorrect_units">>
        ELSE <<>>)

\* C14: for a variable that is present, check_var emits, in the order type, dimensions,
\* units: a type ERROR iff a dtype is declared and differs, a dimensions ERROR iff a dim
\* is declared and differs, and then the missing-unit ERROR if units are declared and the
\* variable has no units attribute, the units-mismatch ERROR if they are declared,
\* present and different, and nothing otherwise: at most three ERRORs for each time the
\* variable is checked.
C14_CheckVarOrder ==
    VarTableChecked =>
        \A n \in DOMAIN table.variables :
            HasVar(dataset, n) =>
                /\ CodesAbout(n) =
                      Repeat(ExpectedVarCodes(table.variables[n], GetVar(dataset, n)),
                             TimesRegistered(table, n))
                /\ Len(CodesAbout(n)) <= 3 * TimesRegistered(table, n)
                /\ \A i \in DOMAIN log : log[i].msg[3] = n => log[i].kind = "ERROR"

\* C14 witness: frequency, present with another type, other dimensions and no units
\* attribute, checked once against an expectation that declares all three: three ERRORs,
\* type, dimensions, missing unit.
C14_Witness ==
    /\ VarTableChecked
    /\ "frequency" \in DOMAIN table.variables
    /\ TimesRegistered(table, "frequency") = 1
    /\ table.variables["frequency"] = Variable(Some(FLOAT), Some(<<"time">>), Some("seconds"))
    /\ HasVar(dataset, "frequency")
    /\ GetVar(dataset, "frequency").dtype = INT
    /\ GetVar(dataset, "frequency").dimensions = <<>>
    /\ CodesAbout("frequency") = <<"incorrect_type", "incorrect_dimensions", "missing_unit">>

(***************************************************************************)
(* Properties of clause 4.10                                               *)
(***************************************************************************)
\* the variables of the dataset whose dimensions are exactly (time, range)
FieldVariables ==
    {dataset.variables[k] : k \in {i \in DOMAIN dataset.variables :
                                      dataset.variables[i].dimensions = <<"time", "range">>}}

\* the number of clause-4.10 diagnostics with that code about attribute a of variable v
FieldEvents(v, code, a) ==
    Cardinality({i \in DOMAIN log :
                    /\ log[i].section = "4.10" /\ log[i].msg[1] = code
                    /\ log[i].msg[2] = "field variable " \o v.name /\ log[i].msg[3] = a})

OnlyFieldVariables ==
    \A i \in DOMAIN log :
        log[i].section = "4.10" =>
            \E v \in FieldVariables :
                log[i].msg[2] = (IF log[i].msg[1] = "invalid_field_type" THEN v.name
                                 ELSE "field variable " \o v.name)

CoordinatesExpected ==
    LET expected == IF IsMobile(dataset)
                    THEN "elevation azimuth range heading roll pitch rotation tilt"
                    ELSE "elevation azimuth range"
    IN  \A v \in FieldVariables :
            LET has == "coordinates" \in DOMAIN v.attrs
            IN  /\ FieldEvents(v, "required_missing", "coordinates") = B2N(~has)
                /\ FieldEvents(v, "incorrect_value", "coordinates") =
                       B2N(has /\ Join(v.attrs["coordinates"].chars) # expected)

\* C15: a clause-4.10 diagnostic is emitted only for a variable whose dimensions are
\* exactly (time, range); for each such variable the coordinates attribute must equal
\* 'elevation azimuth range heading roll pitch rotation tilt' on a mobile platform and
\* 'elevation azimuth range' otherwise: one missing ERROR when it is absent, one
\* incorrect-value ERROR when it differs.
C15_FieldCoordinates == OnlyFieldVariables /\ (Ended => CoordinatesExpected)

\* Clause 4.10 and the coordinates attribute in the runs that get past clause 4.10.
C15_WhenReached == OnlyFieldVariables /\ (Past("4.10") => CoordinatesExpected)

FieldTypeExpected ==
    \A v \in FieldVariables :
        LET integer == v.dtype \in {"int8", "int16", "int32"}
            invalid(e) == /\ e.section = "4.10" /\ e.kind = "ERROR"
                          /\ e.msg[1] = "invalid_field_type" /\ e.msg[2] = v.name
        IN  /\ Count(invalid) = B2N(v.dtype \notin {"int8", "int16", "int32", "float32", "float64"})
            /\ \A a \in {"scale_factor", "add_offset"} :
                  /\ FieldEvents(v, "required_missing", a) =
                         B2N(integer /\ a \notin DOMAIN v.attrs)
                  /\ ~integer =>
                         \A i \in DOMAIN log :
                             ~(/\ log[i].section = "4.10"
                               /\ log[i].msg[2] = "field variable " \o v.name
                               /\ log[i].msg[3] = a)

\* C16: for every variable over exactly (time, range), an invalid-type ERROR is emitted
\* iff its type is none of int8, int16, int32, float32, float64, and the absence of
\* scale_factor or add_offset is an ERROR iff the type is one of the three integer types;
\* for any other type nothing is emitted about the two attributes.
C16_FieldTypeGating == Ended => FieldTypeExpected

\* The type gating of clause 4.10 in the runs that get past clause 4.10.
C16_WhenReached == Past("4.10") => FieldTypeExpected

(***************************************************************************)
(* Properties of clauses 5.6 and 4.5                                       *)
(***************************************************************************)
\* the number of diagnostics of section `section` with that code that name variable v
\* (the variable is the second field of the clauses' own messages and of the
\* not-a-member message, the third field of the others)
EventsAbout(section, code, v) ==
    Cardinality({i \in DOMAIN log :
                    /\ log[i].section = section /\ log[i].msg[1] = code
                    /\ v = (IF code \in {"should_not_exist_stationary", "must_not_exist",
                                         "metagroup_not_member"}
                            THEN log[i].msg[2] ELSE log[i].msg[3])})

CodesOf(section) == {log[i].msg[1] : i \in {k \in DOMAIN log : log[k].section = section}}

VelocityExpected ==
    IF IsMobile(dataset)
    THEN /\ \A k \in DOMAIN valid_pv_vars :
               EventsAbout("5.6", "required_missing", valid_pv_vars[k]) =
                   B2N(~HasVar(dataset, valid_pv_vars[k]))
         /\ \A k \in DOMAIN dataset.variables :
               \A c \in MetaCodes :
                   EventsAbout("5.6", c, dataset.variables[k].name) =
                       B2N(MetaExpected(dataset.variables[k], "platform_velocity",
                                        valid_pv_vars) = c)
         /\ "should_not_exist_stationary" \notin CodesOf("5.6")
    ELSE /\ \A k \in DOMAIN valid_pv_vars :
               EventsAbout("5.6", "should_not_exist_stationary", valid_pv_vars[k]) =
                   B2N(HasVar(dataset, valid_pv_vars[k]))
         /\ CodesOf("5.6") \subseteq {"should_not_exist_stationary"}

\* C17: clause 5.6 on a mobile platform reports each absent platform_velocity variable
\* with one "Required ... missing" ERROR and runs the meta-group check for
\* 'platform_velocity'; on a fixed platform it reports each present one with exactly one
\* should-not-exist ERROR and emits nothing else: no table check, no meta-group check,
\* nothing for an absent variable.
C17_VelocityGating == Ended => VelocityExpected

\* The gating of clause 5.6 in the runs that get past clause 5.6.
C17_WhenReached == Past("5.6") => VelocityExpected

RayDimensionExpected ==
    \A v \in {"ray_n_gates", "ray_start_index"} :
        IF GatesVary(dataset)
        THEN /\ EventsAbout("4.5", "required_missing", v) = B2N(~HasVar(dataset, v))
             /\ EventsAbout("4.5", "incorrect_type", v) =
                    B2N(HasVar(dataset, v) /\ GetVar(dataset, v).dtype # "int32")
             /\ EventsAbout("4.5", "incorrect_dimensions", v) =
                    B2N(HasVar(dataset, v) /\ GetVar(dataset, v).dimensions # <<"time">>)
             /\ EventsAbout("4.5", "must_not_exist", v) = 0
        ELSE /\ EventsAbout("4.5", "must_not_exist", v) = B2N(HasVar(dataset, v))
             /\ CodesOf("4.5") \subseteq {"must_not_exist"}

\* C18: clause 4.5 with n_gates_vary_flag true requires ray_n_gates and ray_start_index
\* (one "Required ... missing" ERROR for each absent one, a check of the type int32 and
\* the dimensions (time,) for each present one); with the flag false it reports each
\* present one with exactly one ERROR and emits nothing for an absent one.
C18_RayDimensionGating == Ended => RayDimensionExpected

\* The gating of clause 4.5 in the runs that get past clause 4.5.
C18_WhenReached == Past("4.5") => RayDimensionExpected

(***************************************************************************)
(* Properties of registration                                              *)
(***************************************************************************)
\* the registrations made on the table so far, in order
RegistrationsMade == IF "registrations" \in DOMAIN call THEN call.registrations ELSE <<>>

\* the names registered as required (req = TRUE) or as optional (req = FALSE), in order
NamesRegistered(req) ==
    LET is(r) == r.required = req
        rs == SelectSeq(RegistrationsMade, is)
    IN  [i \in 1..Len(rs) |-> rs[i].name]

\* the expectation of the last registration of name n
LastRegistered(n) ==
    LET k == CHOOSE i \in DOMAIN RegistrationsMade :
                 /\ RegistrationsMade[i].name = n
                 /\ \A j \in DOMAIN RegistrationsMade :
                       RegistrationsMade[j].name = n => j <= i
    IN  RegistrationsMade[k].expectation

TableAsRegistered ==
    /\ RequiredNames(table) = NamesRegistered(TRUE)
    /\ OptionalNames(table) = NamesRegistered(FALSE)
    /\ DOMAIN Expectations(table) = {RegistrationsMade[i].name : i \in DOMAIN RegistrationsMade}
    /\ \A n \in DOMAIN Expectations(table) : Expectations(table)[n] = LastRegistered(n)

\* the codes expected for present attribute a under expectation e
ExpectedAttrCodes(e, a) ==
    (IF e._type # None /\ e._type # <<a.type>> THEN <<"incorrect_type">> ELSE <<>>)
    \o (IF e.value # None /\ e.value # <<Join(a.chars)>> THEN <<"incorrect_value">> ELSE <<>>)

\* the diagnostics (code and name) expected from one processing of name n
ExpectedOnce(n, req) ==
    LET codes ==
            IF ~Present(table, n)
            THEN (IF req THEN <<"required_missing">>
                  ELSE IF verb THEN <<"optional_missing">> ELSE <<>>)
            ELSE IF table.class = "AttributeTable"
                 THEN ExpectedAttrCodes(LastRegistered(n), dataset.attrs[n])
                 ELSE ExpectedVarCodes(LastRegistered(n), GetVar(dataset, n))
    IN  [i \in 1..Len(codes) |-> <<codes[i], n>>]

ExpectedFrom(names, req) == Flatten([i \in 1..Len(names) |-> ExpectedOnce(names[i], req)])

\* C19: the table holds, for each name, the expectation of its last registration, and
\* the name once per registration in the required or optional sequence it was added to;
\* check() processes the names of the required sequence and then of the optional
\* sequence, a name registered twice twice, each time against the last expectation.
C19_DuplicateRegistration ==
    /\ table # None => TableAsRegistered
    /\ TableChecked =>
          [i \in 1..Len(log) |-> <<log[i].msg[1], log[i].msg[3]>>] =
              ExpectedFrom(NamesRegistered(TRUE), TRUE)
              \o ExpectedFrom(NamesRegistered(FALSE), FALSE)

\* C19 witness: frequency registered twice as required, with two different
\* expectations, and present in the dataset: its diagnostics appear twice.
C19_Witness ==
    /\ TableChecked /\ table.class = "VariableTable"
    /\ Len(RegistrationsMade) = 2
    /\ RegistrationsMade[1].name = "frequency" /\ RegistrationsMade[2].name = "frequency"
    /\ RegistrationsMade[1].required /\ RegistrationsMade[2].required
    /\ RegistrationsMade[1].expectation = Variable(None, None, None)
    /\ RegistrationsMade[2].expectation # RegistrationsMade[1].expectation
    /\ DOMAIN table.variables = {"frequency"}
    /\ table.required_vars = <<"frequency", "frequency">>
    /\ HasVar(dataset, "frequency")
    /\ Len(log) = 2 * Len(ExpectedOnce("frequency", TRUE))
    /\ Len(log) >= 4

(***************************************************************************)
(* The canonical meta-group lists and the variable tables.                 *)
(***************************************************************************)
\* the sub-conventions that run a meta-group check: section of the check, label,
\* table and canonical list
MetaGroupTables ==
    {[section |-> "5.1", label |-> "instrument_parameters", table |-> ip_vars,
      canonical |-> valid_ip_vars],
     [section |-> "5.2", label |-> "radar_parameters", table |-> rp_vars,
      canonical |-> valid_rp_vars],
     [section |-> "5.3", label |-> "lidar_parameters", table |-> lp_vars,
      canonical |-> valid_lp_vars],
     [section |-> "5.4", label |-> "radar_calibration", table |-> rc_vars,
      canonical |-> valid_rc_vars],
     [section |-> "5.6", label |-> "platform_velocity", table |-> pv_vars,
      canonical |-> valid_pv_vars],
     [section |-> "5.7", label |-> "geometry_correction", table |-> gc_vars,
      canonical |-> valid_gc_vars]}

ListEqualsTable(t) == Range(t.canonical) = DOMAIN t.table.variables

\* the variables of the file that table t accepts, where its meta-group check runs
Accepted(t) ==
    IF t.section = "5.6" /\ ~IsMobile(dataset) THEN {}
    ELSE {dataset.variables[k] : k \in {i \in DOMAIN dataset.variables :
                                         dataset.variables[i].name
                                             \in DOMAIN t.table.variables}}

TaggedAs(v, label) ==
    "meta_group" \in DOMAIN v.attrs /\ Join(v.attrs["meta_group"].chars) = label

AcceptedAsMember(t) ==
    \A v \in Accepted(t) :
        /\ TaggedAs(v, t.label) =>
               \A c \in MetaCodes : EventsAbout(t.section, c, v.name) = 0
        /\ "meta_group" \notin DOMAIN v.attrs =>
               EventsAbout(t.section, "metagroup_attr_missing", v.name) = 1

\* C20: in a run that completes, for each of the sub-conventions 5.1, 5.2, 5.3, 5.4,
\* 5.6 (mobile) and 5.7 the canonical meta-group list holds the names registered in
\* the table, every variable the table accepts that is tagged with the
\* sub-convention's label gets no meta-group ERROR, and every one without a
\* meta_group attribute gets the missing-attribute ERROR.
C20_ListsMatchTables ==
    pc = "done" => \A t \in MetaGroupTables : ListEqualsTable(t) /\ AcceptedAsMember(t)

\* The same for the sub-conventions other than 5.3.
C20_ExceptLidar ==
    pc = "done" =>
        \A t \in MetaGroupTables :
            t.section # "5.3" => ListEqualsTable(t) /\ AcceptedAsMember(t)

\* What clause 5.3 does with the two names its list runs together.
C20_LidarObserved ==
    pc = "done" =>
        \A v \in Accepted(CHOOSE t \in MetaGroupTables : t.section = "5.3") :
            v.name \in {"lidar_peak_power", "lidar_aperture_efficiency"} =>
                /\ EventsAbout("5.3", "metagroup_not_member", v.name) =
                       B2N(TaggedAs(v, "lidar_parameters"))
                /\ EventsAbout("5.3", "metagroup_attr_missing", v.name) = 0

(***************************************************************************)
(* Two runs over the same dataset, one verbose and one not                 *)
(***************************************************************************)
\* the caller calls check_cfradial_compliance(dataset, not verb) after the first run
RerunOtherVerb ==
    /\ Ended
    /\ run = 1
    /\ run' = 2
    /\ verb' = ~verb
    /\ firstLog' = [log |-> log, pc |-> pc]
    /\ log' = <<>>
    /\ pc' = "3"
    /\ n_gates_vary_flag' = FALSE
    /\ mobile_platform' = FALSE
    /\ UNCHANGED <<dataset, table, call>>

SpecVerb == Init /\ [][Next \/ RerunOtherVerb]_vars

Errors(l) == SelectSeq(l, IsError)

\* what the verbose run and the other run over the dataset have printed
VerboseLog == IF verb THEN log ELSE firstLog.log

QuietLog == IF verb THEN firstLog.log ELSE log

\* C21: over one dataset, the ERROR events of the run with verb true are, in order,
\* the events of the run with verb false, which holds ERROR events only: verb adds
\* NOTE events and changes nothing else.
C21_VerbOnlyAddsNotes ==
    (run = 2 /\ Ended) => (Errors(VerboseLog) = QuietLog /\ Errors(QuietLog) = QuietLog)

\* C21 witness: both runs have returned, the verbose one printed notes and errors,
\* in either order of the two runs.
C21_Witness ==
    /\ run = 2 /\ pc = "done" /\ ~verb
    /\ Len(QuietLog) > 0
    /\ Len(VerboseLog) > Len(QuietLog)
    /\ dataset.variables # <<>>

====
